---- MODULE Spec2Model ----
(***************************************************************************)
(* A model of objex (github.com/brian-nunez/objex): the path resolver, the *)
(* stream-size prober, the driver registry and the three Store adapters    *)
(* (filesystem, minio, aws).                                               *)
(*                                                                         *)
(* Go strings are modelled as sequences of one-character strings, so that  *)
(* strings.SplitN and filepath.Join are computed and not assumed.          *)
(***************************************************************************)
EXTENDS Integers, Sequences, FiniteSets, TLC

(***************************************************************************)
(* Bounds of the model.                                                    *)
(***************************************************************************)
\* longest currentBucket / fullPath handed to the path resolvers
MaxLen == 3
\* most Register calls of one run
MaxRegs == 3
\* longest byte stream handed to GetStreamSize
MaxBytes == 3
\* most Store method calls of one run
MaxSteps == 2

(***************************************************************************)
(* Values.                                                                 *)
(***************************************************************************)
\* Go's nil (error, pointer, slice)
Nil == "nil"

\* the error values of objex.go
ErrUnknownDriver == "UNKNOWN_DRIVER"
ErrInvalidEndpoint == "INVALID_ENDPOINT"
ErrInvalidAccessKey == "INVALID_ACCESS_KEY"
ErrInvalidSecretKey == "INVALID_SECRET_KEY"
ErrClientInit == "CLIENT_INIT_FAILED"
ErrBucketNotFound == "BUCKET_NOT_FOUND"
ErrInvalidBucketName == "INVALID_BUCKET_NAME"
ErrObjectNotFound == "OBJECT_NOT_FOUND"
ErrAccessDenied == "ACCESS_DENIED"
ErrBucketNotEmpty == "BUCKET_NOT_EMPTY"
ErrPreconditionFailed == "PRECONDITION_FAILED"
ErrBucketAlreadyExists == "BUCKET_ALREADY_EXISTS"
ErrInvalidObjectName == "INVALID_OBJECT_NAME"
ErrInvalidFile == "INVALID_FILE"

\* the characters strings are made of: two letters and the path separator
Alphabet == {"a", "b", "/"}

\* every string of at most n characters
StringsUpTo(n) == UNION {[1..k -> Alphabet] : k \in 0..n}

(***************************************************************************)
(* strings.SplitN(s, "/", 2): the whole string when it holds no "/", else   *)
(* the text before the first "/" and the text after it.                    *)
(***************************************************************************)
FirstSlash(s) ==
    IF \E i \in 1..Len(s) : s[i] = "/"
    THEN CHOOSE i \in 1..Len(s) : s[i] = "/" /\ \A j \in 1..(i - 1) : s[j] # "/"
    ELSE 0

SplitN2(s) ==
    LET i == FirstSlash(s)
    IN  IF i = 0 THEN <<s>>
        ELSE <<SubSeq(s, 1, i - 1), SubSeq(s, i + 1, Len(s))>>

(***************************************************************************)
(* The path resolvers.  Each returns [bucket, object, err].                *)
(***************************************************************************)
\* SplitPath with the currentBucket test dropped: the path is always parsed
SplitPathAlwaysParses(currentBucket, fullPath) ==
    LET parts == SplitN2(fullPath)
    IN  IF Len(parts) < 2 \/ parts[1] = <<>> \/ parts[2] = <<>>
        THEN [bucket |-> <<>>, object |-> <<>>, err |-> ErrInvalidObjectName]
        ELSE [bucket |-> parts[1], object |-> parts[2], err |-> Nil]

\* SplitPath with the test of an empty second part dropped
SplitPathKeepsEmptyKey(currentBucket, fullPath) ==
    IF currentBucket # <<>>
    THEN [bucket |-> currentBucket, object |-> fullPath, err |-> Nil]
    ELSE LET parts == SplitN2(fullPath)
         IN  IF Len(parts) < 2 \/ parts[1] = <<>>
             THEN [bucket |-> <<>>, object |-> <<>>, err |-> ErrInvalidObjectName]
             ELSE [bucket |-> parts[1], object |-> parts[2], err |-> Nil]

\* objex.SplitPath
SplitPath(currentBucket, fullPath) ==
    IF currentBucket # <<>>
    THEN [bucket |-> currentBucket, object |-> fullPath, err |-> Nil]
    ELSE LET parts == SplitN2(fullPath)
         IN  IF Len(parts) < 2 \/ parts[1] = <<>> \/ parts[2] = <<>>
             THEN [bucket |-> <<>>, object |-> <<>>, err |-> ErrInvalidObjectName]
             ELSE [bucket |-> parts[1], object |-> parts[2], err |-> Nil]

\* splitPathFS that rejects a name without "/" when no bucket is selected
splitPathFSNoDefault(bucket, name) ==
    IF name = <<>>
    THEN [bucket |-> <<>>, object |-> <<>>, err |-> ErrInvalidObjectName]
    ELSE IF bucket # <<>>
    THEN [bucket |-> bucket, object |-> name, err |-> Nil]
    ELSE LET parts == SplitN2(name)
         IN  IF Len(parts) = 2
             THEN [bucket |-> parts[1], object |-> parts[2], err |-> Nil]
             ELSE [bucket |-> <<>>, object |-> <<>>, err |-> ErrInvalidObjectName]

\* filesystem.splitPathFS: "." is the root bucket of a name without "/"
splitPathFS(bucket, name) ==
    IF name = <<>>
    THEN [bucket |-> <<>>, object |-> <<>>, err |-> ErrInvalidObjectName]
    ELSE IF bucket # <<>>
    THEN [bucket |-> bucket, object |-> name, err |-> Nil]
    ELSE LET parts == SplitN2(name)
         IN  IF Len(parts) = 2
             THEN [bucket |-> parts[1], object |-> parts[2], err |-> Nil]
             ELSE [bucket |-> <<".">>, object |-> name, err |-> Nil]

(***************************************************************************)
(* Byte streams (io.Reader values) and the stream-size prober.             *)
(*                                                                         *)
(* A stream is [seekable, bytes, pos, seekFail, failAt, failErr]:          *)
(*   seekable  the dynamic type also implements io.Seeker                  *)
(*   bytes     everything the source holds, pos of them already consumed   *)
(*   seekFail  which of GetStreamSize's three Seek calls fail:             *)
(*             "cur" (0, SeekCurrent), "end" (0, SeekEnd), "back"          *)
(*   failAt    -1, or the number of further bytes after which Read fails   *)
(*   failErr   the error Read then returns                                 *)
(***************************************************************************)
Bytes == {0, 1}

SourceErrors == {"io: read/write on closed pipe", "unexpected EOF"}

BytesUpTo(n) == UNION {[1..k -> Bytes] : k \in 0..n}

\* the bytes between the read position and the end
Remaining(st) == SubSeq(st.bytes, st.pos + 1, Len(st.bytes))

\* io.ReadAll / io.Copy from the stream: the bytes delivered and the error
ReadAll(st) ==
    IF st.failAt >= 0 /\ st.failAt <= Len(Remaining(st))
    THEN [data |-> SubSeq(Remaining(st), 1, st.failAt), err |-> st.failErr]
    ELSE [data |-> Remaining(st), err |-> Nil]

\* the stream after io.ReadAll / io.Copy consumed it
Drained(st) ==
    IF st.failAt >= 0 /\ st.failAt <= Len(Remaining(st))
    THEN [st EXCEPT !.pos = st.pos + st.failAt]
    ELSE [st EXCEPT !.pos = IF st.pos > Len(st.bytes) THEN st.pos ELSE Len(st.bytes)]

\* bytes.NewReader(b)
NewReader(b) ==
    [seekable |-> TRUE, bytes |-> b, pos |-> 0, seekFail |-> {},
     failAt |-> -1, failErr |-> Nil]

NoStream == NewReader(<<>>)

\* GetStreamSize that does not seek back to the position it started from
GetStreamSizeStaysAtEnd(data) ==
    IF data.seekable
    THEN IF "end" \in data.seekFail
         THEN [rd |-> Nil, size |-> 0, err |-> ErrInvalidFile, data |-> data, buf |-> NoStream]
         ELSE [rd |-> "data", size |-> Len(data.bytes) - data.pos, err |-> Nil,
               data |-> [data EXCEPT !.pos = Len(data.bytes)], buf |-> NoStream]
    ELSE LET copied == ReadAll(data)
         IN  IF copied.err # Nil
             THEN [rd |-> Nil, size |-> 0, err |-> copied.err,
                   data |-> Drained(data), buf |-> NoStream]
             ELSE [rd |-> "buf", size |-> Len(copied.data), err |-> Nil,
                   data |-> Drained(data), buf |-> NewReader(copied.data)]

\* GetStreamSize that reports a failed copy as ErrInvalidFile
GetStreamSizeMapsCopyError(data) ==
    IF data.seekable
    THEN IF "end" \in data.seekFail
         THEN [rd |-> Nil, size |-> 0, err |-> ErrInvalidFile, data |-> data, buf |-> NoStream]
         ELSE [rd |-> "data", size |-> Len(data.bytes) - data.pos, err |-> Nil,
               data |-> data, buf |-> NoStream]
    ELSE LET copied == ReadAll(data)
         IN  IF copied.err # Nil
             THEN [rd |-> Nil, size |-> 0, err |-> ErrInvalidFile,
                   data |-> Drained(data), buf |-> NoStream]
             ELSE [rd |-> "buf", size |-> Len(copied.data), err |-> Nil,
                   data |-> Drained(data), buf |-> NewReader(copied.data)]

\* objex.GetStreamSize: [rd, size, err] and the two streams after the call.
\* rd is Nil, "data" (the handle passed in) or "buf" (the new bytes.Reader);
\* data is the stream passed in as the call leaves it, buf the new reader.
\* A failed Seek returns position 0 with its error and moves nothing.
GetStreamSize(data) ==
    IF data.seekable
    THEN LET currentPos == IF "cur" \in data.seekFail THEN 0 ELSE data.pos
             end == Len(data.bytes)
         IN  IF "end" \in data.seekFail
             THEN [rd |-> Nil, size |-> 0, err |-> ErrInvalidFile,
                   data |-> data, buf |-> NoStream]
             ELSE [rd |-> "data", size |-> end - currentPos, err |-> Nil,
                   data |-> [data EXCEPT !.pos = IF "back" \in data.seekFail
                                                 THEN end ELSE currentPos],
                   buf |-> NoStream]
    ELSE LET copied == ReadAll(data)
         IN  IF copied.err # Nil
             THEN [rd |-> Nil, size |-> 0, err |-> copied.err,
                   data |-> Drained(data), buf |-> NoStream]
             ELSE [rd |-> "buf", size |-> Len(copied.data), err |-> Nil,
                   data |-> Drained(data), buf |-> NewReader(copied.data)]

\* the streams GetStreamSize is tried on
Streams ==
    {[seekable |-> sk, bytes |-> b, pos |-> p, seekFail |-> sf, failAt |-> fa, failErr |-> fe] :
        sk \in BOOLEAN, b \in BytesUpTo(MaxBytes), p \in 0..(MaxBytes + 1),
        sf \in SUBSET {"cur", "end", "back"}, fa \in -1..MaxBytes,
        fe \in SourceErrors \cup {Nil}}

ValidStream(st) ==
    /\ st.pos <= Len(st.bytes) + (IF st.seekable THEN 1 ELSE 0)
    /\ (st.seekable => st.failAt = -1)
    /\ (~st.seekable => st.seekFail = {})
    /\ (st.failAt = -1 <=> st.failErr = Nil)
    /\ st.failAt <= Len(Remaining(st))

(***************************************************************************)
(* The file system under a filesystem.Store's basePath.                    *)
(*                                                                         *)
(* A location is the sequence of path elements below basePath (<<>> is     *)
(* basePath itself).  A file system is [dirs, files]: the set of locations *)
(* that are directories and a function from the locations that are regular *)
(* files to their bytes.  The parent of basePath is taken to exist.        *)
(***************************************************************************)
ENOENT == "no such file or directory"
ENOTDIR == "not a directory"
EISDIR == "is a directory"
ENOTEMPTY == "directory not empty"

RECURSIVE SplitAll(_)
\* strings.Split(s, "/")
SplitAll(s) ==
    LET i == FirstSlash(s)
    IN  IF i = 0 THEN <<s>>
        ELSE <<SubSeq(s, 1, i - 1)>> \o SplitAll(SubSeq(s, i + 1, Len(s)))

\* the elements filepath.Clean keeps: not the empty ones, not "."
Elements(s) == SelectSeq(SplitAll(s), LAMBDA e : e # <<>> /\ e # <<".">>)

\* filepath.Join(s.basePath, bucket, object), as a location below basePath
Join(bucket, object) == Elements(bucket) \o Elements(object)

EmptyFS == [dirs |-> {}, files |-> [l \in {} |-> <<>>]]

IsDir(fs, loc) == loc \in fs.dirs

IsFile(fs, loc) == loc \in DOMAIN fs.files

\* the locations on the way to loc, itself included
Prefixes(loc) == {SubSeq(loc, 1, k) : k \in 0..Len(loc)}

\* a regular file stands where a directory of loc's path should be
UnderFile(fs, loc) == \E q \in Prefixes(loc) : q # loc /\ IsFile(fs, q)

\* loc lies at or below top
Within(top, loc) == Len(loc) >= Len(top) /\ SubSeq(loc, 1, Len(top)) = top

\* os.MkdirAll(loc): every missing directory on the way is made
MkdirAll(fs, loc) ==
    IF \E q \in Prefixes(loc) : IsFile(fs, q)
    THEN [fs |-> fs, err |-> ENOTDIR]
    ELSE [fs |-> [fs EXCEPT !.dirs = fs.dirs \cup Prefixes(loc)], err |-> Nil]

\* os.MkdirAll(filepath.Dir(loc)); the parent of basePath exists
MkdirAllDir(fs, loc) ==
    IF loc = <<>> THEN [fs |-> fs, err |-> Nil]
    ELSE MkdirAll(fs, SubSeq(loc, 1, Len(loc) - 1))

\* the error of opening loc for writing (os.Create), Nil when it can be opened
CreateErr(fs, loc) ==
    IF UnderFile(fs, loc) THEN ENOTDIR
    ELSE IF loc # <<>> /\ ~IsDir(fs, SubSeq(loc, 1, Len(loc) - 1)) THEN ENOENT
    ELSE IF IsDir(fs, loc) THEN EISDIR
    ELSE Nil

\* the file at loc holding exactly bytes (os.Create truncates, io.Copy writes)
WriteFile(fs, loc, bytes) ==
    [fs EXCEPT !.files = [l \in (DOMAIN fs.files) \cup {loc} |->
                              IF l = loc THEN bytes ELSE fs.files[l]]]

\* os.Stat(loc): [err, dir, size]
Stat(fs, loc) ==
    IF UnderFile(fs, loc) THEN [err |-> ENOTDIR, dir |-> FALSE, size |-> 0]
    ELSE IF IsFile(fs, loc) THEN [err |-> Nil, dir |-> FALSE, size |-> Len(fs.files[loc])]
    ELSE IF IsDir(fs, loc) THEN [err |-> Nil, dir |-> TRUE, size |-> 4096]
    ELSE [err |-> ENOENT, dir |-> FALSE, size |-> 0]

\* os.ReadFile(loc): [data, err]; data is <<>> for nil, <<bytes>> otherwise
ReadFile(fs, loc) ==
    IF UnderFile(fs, loc) THEN [data |-> <<>>, err |-> ENOTDIR]
    ELSE IF IsFile(fs, loc) THEN [data |-> <<fs.files[loc]>>, err |-> Nil]
    ELSE IF IsDir(fs, loc) THEN [data |-> <<>>, err |-> EISDIR]
    ELSE [data |-> <<>>, err |-> ENOENT]

\* os.Remove(loc): a file, or a directory that is empty
Remove(fs, loc) ==
    IF UnderFile(fs, loc) THEN [fs |-> fs, err |-> ENOTDIR]
    ELSE IF IsFile(fs, loc)
    THEN [fs |-> [fs EXCEPT !.files = [l \in (DOMAIN fs.files) \ {loc} |-> fs.files[l]]],
          err |-> Nil]
    ELSE IF IsDir(fs, loc)
    THEN IF \E l \in fs.dirs \cup DOMAIN fs.files : l # loc /\ Within(loc, l)
         THEN [fs |-> fs, err |-> ENOTEMPTY]
         ELSE [fs |-> [fs EXCEPT !.dirs = fs.dirs \ {loc}], err |-> Nil]
    ELSE [fs |-> fs, err |-> ENOENT]

\* os.RemoveAll(loc): loc and all below it; nil when loc does not exist
RemoveAll(fs, loc) ==
    IF UnderFile(fs, loc) THEN [fs |-> fs, err |-> ENOTDIR]
    ELSE [fs |-> [dirs |-> {l \in fs.dirs : ~Within(loc, l)},
                  files |-> [l \in {x \in DOMAIN fs.files : ~Within(loc, x)} |-> fs.files[l]]],
          err |-> Nil]

RECURSIVE JoinElements(_)
\* the elements of a relative path with the separator between them
JoinElements(elems) ==
    IF Len(elems) = 1 THEN elems[1]
    ELSE elems[1] \o <<"/">> \o JoinElements(Tail(elems))

\* filepath.Rel(base, loc) for a loc at or below base
Rel(base, loc) ==
    IF loc = base THEN <<".">>
    ELSE JoinElements(SubSeq(loc, Len(base) + 1, Len(loc)))

\* os.ReadDir(loc): [names, err], names the directories directly below loc
ReadDir(fs, loc) ==
    IF \E q \in Prefixes(loc) : IsFile(fs, q) THEN [names |-> {}, err |-> ENOTDIR]
    ELSE IF ~IsDir(fs, loc) THEN [names |-> {}, err |-> ENOENT]
    ELSE [names |-> {l[Len(l)] : l \in {d \in fs.dirs : Len(d) = Len(loc) + 1 /\ Within(loc, d)}},
          err |-> Nil]

\* filepath.WalkDir(base, fn) with ListObjects' fn: [files, err], files the
\* regular files at or below base
WalkDir(fs, base) ==
    IF UnderFile(fs, base) THEN [files |-> {}, err |-> ENOTDIR]
    ELSE IF ~IsFile(fs, base) /\ ~IsDir(fs, base) THEN [files |-> {}, err |-> ENOENT]
    ELSE [files |-> {l \in DOMAIN fs.files : Within(base, l)}, err |-> Nil]

(***************************************************************************)
(* What a Store method returns: [err, found, meta, data, list].  meta and   *)
(* data are <<>> for nil and <<v>> for a value, list is the set of the     *)
(* entries of a listing; a method that has no such result leaves them      *)
(* empty.                                                                  *)
(***************************************************************************)
Res(err) == [err |-> err, found |-> FALSE, meta |-> <<>>, data |-> <<>>, list |-> {}]

OctetStream == "application/octet-stream"

\* objex.ObjectMetaData, without the time stamp
Meta(key, size, contentType) == [Key |-> key, Size |-> size, ContentType |-> contentType]

(***************************************************************************)
(* filesystem.Store.  s is the Store ([bucket]), fs the file system below  *)
(* its basePath; each method returns the two as it leaves them, and res.   *)
(***************************************************************************)
\* NewStore: [store, err], store <<>> for nil
fsNewStore(config) ==
    IF config.BasePath = "" THEN [store |-> <<>>, err |-> ErrInvalidEndpoint]
    ELSE [store |-> <<[bucket |-> <<>>, basePath |-> config.BasePath]>>, err |-> Nil]

\* Store.SetBucket
fsSetBucket(s, fs, bucketName) ==
    LET m == MkdirAll(fs, Join(bucketName, <<>>))
    IN  IF m.err # Nil
        THEN [s |-> s, fs |-> m.fs, res |-> Res(m.err)]
        ELSE [s |-> [s EXCEPT !.bucket = bucketName], fs |-> m.fs,
              res |-> [Res(Nil) EXCEPT !.found = TRUE]]

\* Store.CreateBucket
fsCreateBucket(s, fs, bucketName) ==
    LET m == MkdirAll(fs, Join(bucketName, <<>>))
    IN  [s |-> s, fs |-> m.fs, res |-> Res(m.err)]

\* Store.DeleteBucket
fsDeleteBucket(s, fs, bucketName) ==
    LET r == RemoveAll(fs, Join(bucketName, <<>>))
    IN  [s |-> s, fs |-> r.fs, res |-> Res(r.err)]

\* Store.CreateObject
fsCreateObject(s, fs, name, data, contentType) ==
    LET sp == splitPathFS(s.bucket, name)
        fullPath == Join(sp.bucket, sp.object)
        m == MkdirAllDir(fs, fullPath)
        ce == CreateErr(m.fs, fullPath)
        copied == ReadAll(data)
    IN  IF sp.err # Nil THEN [s |-> s, fs |-> fs, res |-> Res(sp.err)]
        ELSE IF m.err # Nil THEN [s |-> s, fs |-> m.fs, res |-> Res(m.err)]
        ELSE IF ce # Nil THEN [s |-> s, fs |-> m.fs, res |-> Res(ce)]
        ELSE [s |-> s, fs |-> WriteFile(m.fs, fullPath, copied.data),
              res |-> Res(copied.err)]

\* Store.ReadObject
fsReadObject(s, fs, name) ==
    LET sp == splitPathFS(s.bucket, name)
        r == ReadFile(fs, Join(sp.bucket, sp.object))
    IN  IF sp.err # Nil THEN [s |-> s, fs |-> fs, res |-> Res(sp.err)]
        ELSE [s |-> s, fs |-> fs, res |-> [Res(r.err) EXCEPT !.data = r.data]]

\* Store.DeleteObject
fsDeleteObject(s, fs, name) ==
    LET sp == splitPathFS(s.bucket, name)
        r == Remove(fs, Join(sp.bucket, sp.object))
    IN  IF sp.err # Nil THEN [s |-> s, fs |-> fs, res |-> Res(sp.err)]
        ELSE [s |-> s, fs |-> r.fs, res |-> Res(r.err)]

\* Store.Exists
fsExists(s, fs, name) ==
    LET sp == splitPathFS(s.bucket, name)
        info == Stat(fs, Join(sp.bucket, sp.object))
    IN  IF sp.err # Nil THEN [s |-> s, fs |-> fs, res |-> Res(sp.err)]
        ELSE IF info.err = ENOENT THEN [s |-> s, fs |-> fs, res |-> Res(Nil)]
        ELSE IF info.err # Nil THEN [s |-> s, fs |-> fs, res |-> Res(info.err)]
        ELSE [s |-> s, fs |-> fs,
              res |-> [Res(Nil) EXCEPT !.found = TRUE,
                                       !.meta = <<Meta(sp.object, info.size, OctetStream)>>]]

\* Store.CopyObject: the source is opened, then the destination is created
\* (and truncated), then the source is read into it
fsCopyObject(s, fs, src, dest) ==
    LET a == splitPathFS(s.bucket, src)
        b == splitPathFS(s.bucket, dest)
        srcPath == Join(a.bucket, a.object)
        destPath == Join(b.bucket, b.object)
        m == MkdirAllDir(fs, destPath)
        open == Stat(m.fs, srcPath)
        ce == CreateErr(m.fs, destPath)
        truncated == WriteFile(m.fs, destPath, <<>>)
    IN  IF a.err # Nil THEN [s |-> s, fs |-> fs, res |-> Res(a.err)]
        ELSE IF b.err # Nil THEN [s |-> s, fs |-> fs, res |-> Res(b.err)]
        ELSE IF m.err # Nil THEN [s |-> s, fs |-> m.fs, res |-> Res(m.err)]
        ELSE IF open.err # Nil THEN [s |-> s, fs |-> m.fs, res |-> Res(open.err)]
        ELSE IF ce # Nil THEN [s |-> s, fs |-> m.fs, res |-> Res(ce)]
        ELSE IF open.dir THEN [s |-> s, fs |-> truncated, res |-> Res(EISDIR)]
        ELSE [s |-> s, fs |-> WriteFile(truncated, destPath, truncated.files[srcPath]),
              res |-> Res(Nil)]

\* Store.MoveObject
fsMoveObject(s, fs, src, dest) ==
    LET c == fsCopyObject(s, fs, src, dest)
    IN  IF c.res.err # Nil THEN c
        ELSE fsDeleteObject(c.s, c.fs, src)

\* Store.Setup
fsSetup(s, fs) ==
    LET m == MkdirAll(fs, <<>>)
    IN  [s |-> s, fs |-> m.fs, res |-> Res(m.err)]

\* Store.SetRegion
fsSetRegion(s, fs, region) == [s |-> s, fs |-> fs, res |-> Res(Nil)]

\* Store.ListBuckets
fsListBuckets(s, fs) ==
    LET entries == ReadDir(fs, <<>>)
    IN  IF entries.err # Nil THEN [s |-> s, fs |-> fs, res |-> Res(entries.err)]
        ELSE [s |-> s, fs |-> fs, res |-> [Res(Nil) EXCEPT !.list = entries.names]]

\* Store.UpdateObject
fsUpdateObject(s, fs, name, data) == fsCreateObject(s, fs, name, data, "")

\* Store.ListObjects
fsListObjects(s, fs, bucketName) ==
    LET bucket == IF bucketName = <<>> THEN s.bucket ELSE bucketName
        base == Join(bucket, <<>>)
        walk == WalkDir(fs, base)
    IN  [s |-> s, fs |-> fs,
         res |-> [Res(walk.err) EXCEPT
                    !.list = {Meta(Rel(base, l), Len(fs.files[l]), OctetStream) :
                                l \in walk.files}]]

\* Store.Metadata
fsMetadata(s, fs, name) ==
    LET e == fsExists(s, fs, name).res
    IN  IF e.err # Nil THEN [s |-> s, fs |-> fs, res |-> Res(e.err)]
        ELSE IF ~e.found THEN [s |-> s, fs |-> fs, res |-> Res(ErrObjectNotFound)]
        ELSE [s |-> s, fs |-> fs, res |-> [Res(Nil) EXCEPT !.meta = e.meta]]

\* Store.CleanUp
fsCleanUp(s, fs) == [s |-> s, fs |-> fs, res |-> Res(Nil)]

\* Store.HealthCheck; basePath is not "", NewStore refuses that
fsHealthCheck(s, fs) ==
    LET m == MkdirAll(fs, <<>>)
    IN  [s |-> s, fs |-> m.fs, res |-> Res(m.err)]

(***************************************************************************)
(* The object store behind the minio and aws clients.                      *)
(*                                                                         *)
(* An object store is [buckets, objects]: the names of its buckets and a   *)
(* function from <<bucket, key>> to [data, contentType].  A native call is *)
(* given a fault: "none", or the reason the service refuses or cannot be   *)
(* reached.  A native error is the S3 error code, or Transport for an      *)
(* error that is no S3 response (it carries no code).                      *)
(***************************************************************************)
Transport == "transport error"

Faults == {"none", "AccessDenied", Transport}

EmptyS3 == [buckets |-> {}, objects |-> [o \in {} |-> <<>>]]

ValidBucketName(b) == b # <<>> /\ \A i \in 1..Len(b) : b[i] # "/"

\* the error every native call on bucket b ends with before it does anything
NativeRefusal(s3, b, fault) ==
    IF fault # "none" THEN fault
    ELSE IF ~ValidBucketName(b) THEN "InvalidBucketName"
    ELSE Nil

\* MakeBucket / CreateBucket
NativeMakeBucket(s3, b, fault) ==
    LET refused == NativeRefusal(s3, b, fault)
    IN  IF refused # Nil THEN [s3 |-> s3, err |-> refused]
        ELSE IF b \in s3.buckets THEN [s3 |-> s3, err |-> "BucketAlreadyOwnedByYou"]
        ELSE [s3 |-> [s3 EXCEPT !.buckets = s3.buckets \cup {b}], err |-> Nil]

\* RemoveBucket / DeleteBucket
NativeRemoveBucket(s3, b, fault) ==
    LET refused == NativeRefusal(s3, b, fault)
    IN  IF refused # Nil THEN [s3 |-> s3, err |-> refused]
        ELSE IF b \notin s3.buckets THEN [s3 |-> s3, err |-> "NoSuchBucket"]
        ELSE IF \E o \in DOMAIN s3.objects : o[1] = b
        THEN [s3 |-> s3, err |-> "BucketNotEmpty"]
        ELSE [s3 |-> [s3 EXCEPT !.buckets = s3.buckets \ {b}], err |-> Nil]

\* minio BucketExists: [found, err]
NativeBucketExists(s3, b, fault) ==
    LET refused == NativeRefusal(s3, b, fault)
    IN  IF refused # Nil THEN [found |-> FALSE, err |-> refused]
        ELSE [found |-> b \in s3.buckets, err |-> Nil]

\* aws HeadBucket: a HEAD request, answered 404 without a code
NativeHeadBucket(s3, b, fault) ==
    LET refused == NativeRefusal(s3, b, fault)
    IN  IF refused # Nil THEN refused
        ELSE IF b \notin s3.buckets THEN "NotFound"
        ELSE Nil

\* PutObject / Upload of the bytes body
NativePutObject(s3, b, k, body, contentType, fault) ==
    LET refused == NativeRefusal(s3, b, fault)
    IN  IF refused # Nil THEN [s3 |-> s3, err |-> refused]
        ELSE IF k = <<>> THEN [s3 |-> s3, err |-> "InvalidArgument"]
        ELSE IF b \notin s3.buckets THEN [s3 |-> s3, err |-> "NoSuchBucket"]
        ELSE [s3 |-> [s3 EXCEPT !.objects =
                        [o \in (DOMAIN s3.objects) \cup {<<b, k>>} |->
                            IF o = <<b, k>>
                            THEN [data |-> body, contentType |-> contentType]
                            ELSE s3.objects[o]]],
              err |-> Nil]

\* minio PutObject(reader, size): size bytes are read from the reader, all of
\* it when size is negative; a reader that ends early or fails is a
\* transport error
MinioPutObject(s3, b, k, reader, size, contentType, fault) ==
    LET got == ReadAll(reader)
    IN  IF NativeRefusal(s3, b, fault) # Nil \/ k = <<>> \/ b \notin s3.buckets
        THEN NativePutObject(s3, b, k, <<>>, contentType, fault)
        ELSE IF size < 0
        THEN IF got.err # Nil THEN [s3 |-> s3, err |-> Transport]
             ELSE NativePutObject(s3, b, k, got.data, contentType, fault)
        ELSE IF Len(got.data) < size THEN [s3 |-> s3, err |-> Transport]
        ELSE NativePutObject(s3, b, k, SubSeq(got.data, 1, size), contentType, fault)

\* aws Uploader.Upload(Body): the body is read to its end
AwsUpload(s3, b, k, body, contentType, fault) ==
    LET got == ReadAll(body)
    IN  IF NativeRefusal(s3, b, fault) # Nil \/ k = <<>> \/ b \notin s3.buckets
        THEN NativePutObject(s3, b, k, <<>>, contentType, fault)
        ELSE IF got.err # Nil THEN [s3 |-> s3, err |-> got.err]
        ELSE NativePutObject(s3, b, k, got.data, contentType, fault)

\* minio StatObject: [err, size, contentType]
MinioStatObject(s3, b, k, fault) ==
    LET refused == NativeRefusal(s3, b, fault)
    IN  IF refused # Nil THEN [err |-> refused, size |-> 0, contentType |-> ""]
        ELSE IF k = <<>> THEN [err |-> "InvalidArgument", size |-> 0, contentType |-> ""]
        ELSE IF b \notin s3.buckets THEN [err |-> "NoSuchBucket", size |-> 0, contentType |-> ""]
        ELSE IF <<b, k>> \notin DOMAIN s3.objects
        THEN [err |-> "NoSuchKey", size |-> 0, contentType |-> ""]
        ELSE [err |-> Nil, size |-> Len(s3.objects[<<b, k>>].data),
              contentType |-> s3.objects[<<b, k>>].contentType]

\* aws HeadObject: a HEAD request, so every 404 is types.NotFound
AwsHeadObject(s3, b, k, fault) ==
    LET r == MinioStatObject(s3, b, k, fault)
    IN  IF r.err \in {"NoSuchBucket", "NoSuchKey"} THEN [r EXCEPT !.err = "NotFound"] ELSE r

\* RemoveObject / DeleteObject: deleting a missing key succeeds
NativeRemoveObject(s3, b, k, fault) ==
    LET refused == NativeRefusal(s3, b, fault)
    IN  IF refused # Nil THEN [s3 |-> s3, err |-> refused]
        ELSE IF k = <<>> THEN [s3 |-> s3, err |-> "InvalidArgument"]
        ELSE IF b \notin s3.buckets THEN [s3 |-> s3, err |-> "NoSuchBucket"]
        ELSE [s3 |-> [s3 EXCEPT !.objects =
                        [o \in (DOMAIN s3.objects) \ {<<b, k>>} |-> s3.objects[o]]],
              err |-> Nil]

\* GetObject / Download: [data, err], data <<bytes>> when the object is there
NativeGetObject(s3, b, k, fault) ==
    LET refused == NativeRefusal(s3, b, fault)
    IN  IF refused # Nil THEN [data |-> <<>>, err |-> refused]
        ELSE IF k = <<>> THEN [data |-> <<>>, err |-> "InvalidArgument"]
        ELSE IF b \notin s3.buckets THEN [data |-> <<>>, err |-> "NoSuchBucket"]
        ELSE IF <<b, k>> \notin DOMAIN s3.objects THEN [data |-> <<>>, err |-> "NoSuchKey"]
        ELSE [data |-> <<s3.objects[<<b, k>>].data>>, err |-> Nil]

\* minio GetObject: [err, read]; the call itself only checks the two names,
\* the request is sent by the first Read of the object it returns
MinioGetObject(s3, b, k, fault) ==
    [err |-> IF ~ValidBucketName(b) THEN "InvalidBucketName"
             ELSE IF k = <<>> THEN "InvalidArgument"
             ELSE Nil,
     read |-> NativeGetObject(s3, b, k, fault)]

\* ListObjects / ListObjectsV2: [keys, err]
NativeListObjects(s3, b, fault) ==
    LET refused == NativeRefusal(s3, b, fault)
    IN  IF refused # Nil THEN [keys |-> {}, err |-> refused]
        ELSE IF b \notin s3.buckets THEN [keys |-> {}, err |-> "NoSuchBucket"]
        ELSE [keys |-> {o[2] : o \in {x \in DOMAIN s3.objects : x[1] = b}}, err |-> Nil]

\* ListBuckets: [names, err]
NativeListBuckets(s3, fault) ==
    IF fault # "none" THEN [names |-> {}, err |-> fault]
    ELSE [names |-> s3.buckets, err |-> Nil]

\* CopyObject from <<sb, sk>> to <<db, dk>>
NativeCopyObject(s3, sb, sk, db, dk, fault) ==
    LET refused == NativeRefusal(s3, db, fault)
    IN  IF refused # Nil THEN [s3 |-> s3, err |-> refused]
        ELSE IF ~ValidBucketName(sb) THEN [s3 |-> s3, err |-> "InvalidBucketName"]
        ELSE IF sk = <<>> \/ dk = <<>> THEN [s3 |-> s3, err |-> "InvalidArgument"]
        ELSE IF sb \notin s3.buckets \/ db \notin s3.buckets
        THEN [s3 |-> s3, err |-> "NoSuchBucket"]
        ELSE IF <<sb, sk>> \notin DOMAIN s3.objects THEN [s3 |-> s3, err |-> "NoSuchKey"]
        ELSE [s3 |-> [s3 EXCEPT !.objects =
                        [o \in (DOMAIN s3.objects) \cup {<<db, dk>>} |->
                            IF o = <<db, dk>> THEN s3.objects[<<sb, sk>>]
                            ELSE s3.objects[o]]],
              err |-> Nil]

\* aws CopyObject(CopySource): the service splits the source at its first "/"
AwsCopyFrom(s3, copySource, db, dk, fault) ==
    LET i == FirstSlash(copySource)
    IN  IF i = 0 THEN NativeCopyObject(s3, copySource, <<>>, db, dk, fault)
        ELSE NativeCopyObject(s3, SubSeq(copySource, 1, i - 1),
                              SubSeq(copySource, i + 1, Len(copySource)), db, dk, fault)

(***************************************************************************)
(* minio.Store.                                                            *)
(***************************************************************************)
\* minio.ToErrorResponse(err).Code
Code(err) == IF err = Transport THEN "" ELSE err

\* minio.ToStandardError; errors.New(code) is written as the code
ToStandardError(err) ==
    IF err = Nil THEN Nil
    ELSE IF Code(err) = "" THEN Nil
    ELSE IF Code(err) = "NoSuchBucket" THEN ErrBucketNotFound
    ELSE IF Code(err) = "NoSuchKey" THEN ErrObjectNotFound
    ELSE IF Code(err) = "AccessDenied" THEN ErrAccessDenied
    ELSE IF Code(err) = "Conflict" THEN ErrBucketNotEmpty
    ELSE IF Code(err) = "PreconditionFailed" THEN ErrPreconditionFailed
    ELSE IF Code(err) = "BucketAlreadyOwnedByYou" THEN ErrBucketAlreadyExists
    ELSE Code(err)

\* the error value minio.ToErrorResponse(err) is when returned as an error
ErrorResponse(err) == IF Code(err) = "" THEN "minio.ErrorResponse{}" ELSE Code(err)

\* Store.SetBucket
minioSetBucket(s, s3, bucketName, fault) ==
    LET r == NativeBucketExists(s3, bucketName, fault)
    IN  IF bucketName = <<>>
        THEN [s |-> [s EXCEPT !.bucket = <<>>], s3 |-> s3, res |-> Res(Nil)]
        ELSE IF r.err # Nil
        THEN [s |-> s, s3 |-> s3, res |-> [Res(ErrorResponse(r.err)) EXCEPT !.found = r.found]]
        ELSE IF ~r.found THEN [s |-> s, s3 |-> s3, res |-> Res(ErrBucketNotFound)]
        ELSE [s |-> [s EXCEPT !.bucket = bucketName], s3 |-> s3,
              res |-> [Res(Nil) EXCEPT !.found = TRUE]]

\* Store.CreateBucket
minioCreateBucket(s, s3, name, fault) ==
    LET r == NativeMakeBucket(s3, name, fault)
    IN  IF name = <<>> THEN [s |-> s, s3 |-> s3, res |-> Res(ErrInvalidBucketName)]
        ELSE [s |-> s, s3 |-> r.s3, res |-> Res(ToStandardError(r.err))]

\* Store.DeleteBucket
minioDeleteBucket(s, s3, name, fault) ==
    LET r == NativeRemoveBucket(s3, name, fault)
        standardErr == ToStandardError(r.err)
    IN  IF name = <<>> THEN [s |-> s, s3 |-> s3, res |-> Res(ErrInvalidBucketName)]
        ELSE IF r.err # Nil
        THEN IF standardErr = ErrBucketNotFound
             THEN [s |-> s, s3 |-> r.s3, res |-> Res(Nil)]
             ELSE [s |-> s, s3 |-> r.s3, res |-> Res(standardErr)]
        ELSE [s |-> s, s3 |-> r.s3, res |-> Res(Nil)]

\* Store.CreateObject: PutObject is handed data, the reader GetStreamSize was
\* called on, and the size GetStreamSize returned
minioCreateObject(s, s3, name, data, contentType, fault) ==
    LET sp == SplitPath(s.bucket, name)
        ct == IF contentType = "" THEN OctetStream ELSE contentType
        probe == GetStreamSize(data)
        r == MinioPutObject(s3, sp.bucket, sp.object, probe.data, probe.size, ct, fault)
    IN  IF name = <<>> THEN [s |-> s, s3 |-> s3, res |-> Res(ErrInvalidObjectName)]
        ELSE IF sp.err # Nil THEN [s |-> s, s3 |-> s3, res |-> Res(sp.err)]
        ELSE IF probe.err # Nil THEN [s |-> s, s3 |-> s3, res |-> Res(ErrPreconditionFailed)]
        ELSE [s |-> s, s3 |-> r.s3, res |-> Res(ToStandardError(r.err))]

\* Store.DeleteObject
minioDeleteObject(s, s3, name, fault) ==
    LET sp == SplitPath(s.bucket, name)
        r == NativeRemoveObject(s3, sp.bucket, sp.object, fault)
    IN  IF name = <<>> THEN [s |-> s, s3 |-> s3, res |-> Res(ErrInvalidObjectName)]
        ELSE IF sp.err # Nil THEN [s |-> s, s3 |-> s3, res |-> Res(sp.err)]
        ELSE [s |-> s, s3 |-> r.s3, res |-> Res(ToStandardError(r.err))]

\* Store.Exists
minioExists(s, s3, name, fault) ==
    LET sp == SplitPath(s.bucket, name)
        objectItem == MinioStatObject(s3, sp.bucket, sp.object, fault)
        standardErr == ToStandardError(objectItem.err)
    IN  IF sp.err # Nil THEN [s |-> s, s3 |-> s3, res |-> Res(sp.err)]
        ELSE IF objectItem.err # Nil
        THEN IF standardErr = ErrObjectNotFound
             THEN [s |-> s, s3 |-> s3, res |-> Res(Nil)]
             ELSE [s |-> s, s3 |-> s3, res |-> Res(standardErr)]
        ELSE [s |-> s, s3 |-> s3,
              res |-> [Res(Nil) EXCEPT
                         !.found = TRUE,
                         !.meta = <<Meta(sp.object, objectItem.size, objectItem.contentType)>>]]

\* the region HealthCheck and SetRegion fall back to
DefaultRegion == "us-east-1"

\* Store.Setup
minioSetup(s, s3) == [s |-> s, s3 |-> s3, res |-> Res(Nil)]

\* Store.HealthCheck: an empty Region of the configuration is filled in
minioHealthCheck(s, s3) ==
    IF s.config.Endpoint = "" THEN [s |-> s, s3 |-> s3, res |-> Res(ErrInvalidEndpoint)]
    ELSE IF s.config.AccessKey = "" THEN [s |-> s, s3 |-> s3, res |-> Res(ErrInvalidAccessKey)]
    ELSE IF s.config.SecretKey = "" THEN [s |-> s, s3 |-> s3, res |-> Res(ErrInvalidSecretKey)]
    ELSE IF s.config.Region = ""
    THEN [s |-> [s EXCEPT !.config.Region = DefaultRegion], s3 |-> s3, res |-> Res(Nil)]
    ELSE [s |-> s, s3 |-> s3, res |-> Res(Nil)]

\* NewStore: [store, err], store <<>> for nil; HealthCheck runs on the new
\* Store before the client is made
minioNewStore(config) ==
    LET h == minioHealthCheck([bucket |-> <<>>, config |-> config], EmptyS3)
    IN  IF h.res.err # Nil THEN [store |-> <<>>, err |-> h.res.err]
        ELSE [store |-> <<h.s>>, err |-> Nil]

\* Store.SetRegion
minioSetRegion(s, s3, region) ==
    [s |-> [s EXCEPT !.config.Region = IF region = "" THEN DefaultRegion ELSE region],
     s3 |-> s3, res |-> Res(Nil)]

\* Store.ListBuckets
minioListBuckets(s, s3, fault) ==
    LET r == NativeListBuckets(s3, fault)
    IN  IF r.err # Nil THEN [s |-> s, s3 |-> s3, res |-> Res(ToStandardError(r.err))]
        ELSE [s |-> s, s3 |-> s3, res |-> [Res(Nil) EXCEPT !.list = r.names]]

\* Store.ReadObject: an error of the request shows in io.ReadAll and is
\* returned as it is
minioReadObject(s, s3, name, fault) ==
    LET sp == SplitPath(s.bucket, name)
        object == MinioGetObject(s3, sp.bucket, sp.object, fault)
        standardErr == ToStandardError(object.err)
    IN  IF name = <<>> THEN [s |-> s, s3 |-> s3, res |-> Res(ErrInvalidObjectName)]
        ELSE IF sp.err # Nil THEN [s |-> s, s3 |-> s3, res |-> Res(sp.err)]
        ELSE IF object.err # Nil
        THEN IF standardErr = ErrObjectNotFound
             THEN [s |-> s, s3 |-> s3, res |-> Res(Nil)]
             ELSE [s |-> s, s3 |-> s3, res |-> Res(standardErr)]
        ELSE IF object.read.err # Nil
        THEN [s |-> s, s3 |-> s3, res |-> Res(object.read.err)]
        ELSE [s |-> s, s3 |-> s3, res |-> [Res(Nil) EXCEPT !.data = object.read.data]]

\* Store.UpdateObject; fault is for Exists, fault2 for CreateObject
minioUpdateObject(s, s3, name, data, fault, fault2) ==
    LET e == minioExists(s, s3, name, fault).res
    IN  IF e.err # Nil THEN [s |-> s, s3 |-> s3, res |-> Res(e.err)]
        ELSE IF ~e.found THEN [s |-> s, s3 |-> s3, res |-> Res(ErrObjectNotFound)]
        ELSE minioCreateObject(s, s3, name, data, e.meta[1].ContentType, fault2)

\* Store.ListObjects; a listing carries no content types
minioListObjects(s, s3, name, fault) ==
    LET bucketName == IF s.bucket = <<>> THEN name ELSE s.bucket
        r == NativeListObjects(s3, bucketName, fault)
    IN  IF bucketName = <<>> THEN [s |-> s, s3 |-> s3, res |-> Res(ErrInvalidBucketName)]
        ELSE IF r.err # Nil THEN [s |-> s, s3 |-> s3, res |-> Res(ToStandardError(r.err))]
        ELSE [s |-> s, s3 |-> s3,
              res |-> [Res(Nil) EXCEPT
                         !.list = {Meta(k, Len(s3.objects[<<bucketName, k>>].data), "") :
                                     k \in r.keys}]]

\* Store.Metadata
minioMetadata(s, s3, objectName, fault) ==
    LET sp == SplitPath(s.bucket, objectName)
        objectItem == MinioStatObject(s3, sp.bucket, sp.object, fault)
        standardErr == ToStandardError(objectItem.err)
    IN  IF sp.err # Nil THEN [s |-> s, s3 |-> s3, res |-> Res(sp.err)]
        ELSE IF objectItem.err # Nil
        THEN IF standardErr = ErrObjectNotFound
             THEN [s |-> s, s3 |-> s3, res |-> Res(Nil)]
             ELSE [s |-> s, s3 |-> s3, res |-> Res(standardErr)]
        ELSE [s |-> s, s3 |-> s3,
              res |-> [Res(Nil) EXCEPT
                         !.meta = <<Meta(sp.object, objectItem.size, objectItem.contentType)>>]]

\* Store.CopyObject: how it resolves src and dest, [bucket, object, err]
minioCopySplit(bucket, name) ==
    IF name = <<>>
    THEN [bucket |-> <<>>, object |-> <<>>, err |-> ErrInvalidObjectName]
    ELSE IF bucket # <<>>
    THEN [bucket |-> bucket, object |-> name, err |-> Nil]
    ELSE LET paths == SplitN2(name)
         IN  IF Len(paths) < 2
             THEN [bucket |-> <<>>, object |-> <<>>, err |-> ErrInvalidObjectName]
             ELSE [bucket |-> paths[1], object |-> paths[2], err |-> Nil]

\* Store.CopyObject
minioCopyObject(s, s3, src, dest, fault) ==
    LET a == minioCopySplit(s.bucket, src)
        b == minioCopySplit(s.bucket, dest)
        r == NativeCopyObject(s3, a.bucket, a.object, b.bucket, b.object, fault)
    IN  IF a.err # Nil THEN [s |-> s, s3 |-> s3, res |-> Res(a.err)]
        ELSE IF b.err # Nil THEN [s |-> s, s3 |-> s3, res |-> Res(b.err)]
        ELSE [s |-> s, s3 |-> r.s3, res |-> Res(ToStandardError(r.err))]

\* Store.MoveObject; fault is for CopyObject, fault2 for DeleteObject
minioMoveObject(s, s3, src, dest, fault, fault2) ==
    LET c == minioCopyObject(s, s3, src, dest, fault)
    IN  IF c.res.err # Nil THEN c
        ELSE minioDeleteObject(c.s, c.s3, src, fault2)

\* Store.CleanUp
minioCleanUp(s, s3) == [s |-> s, s3 |-> s3, res |-> Res(Nil)]

(***************************************************************************)
(* aws.Store.                                                              *)
(***************************************************************************)
\* Store.SetBucket: the field is written before the bucket is looked up
awsSetBucket(s, s3, bucketName, fault) ==
    LET err == NativeHeadBucket(s3, bucketName, fault)
    IN  IF err # Nil
        THEN [s |-> [s EXCEPT !.bucket = bucketName], s3 |-> s3, res |-> Res(ErrBucketNotFound)]
        ELSE [s |-> [s EXCEPT !.bucket = bucketName], s3 |-> s3,
              res |-> [Res(Nil) EXCEPT !.found = TRUE]]

\* Store.CreateBucket
awsCreateBucket(s, s3, name, fault) ==
    LET r == NativeMakeBucket(s3, name, fault)
    IN  IF name = <<>> THEN [s |-> s, s3 |-> s3, res |-> Res(ErrInvalidBucketName)]
        ELSE IF r.err # Nil THEN [s |-> s, s3 |-> r.s3, res |-> Res(ErrBucketAlreadyExists)]
        ELSE [s |-> s, s3 |-> r.s3, res |-> Res(Nil)]

\* Store.DeleteBucket
awsDeleteBucket(s, s3, name, fault) ==
    LET r == NativeRemoveBucket(s3, name, fault)
    IN  [s |-> s, s3 |-> r.s3, res |-> Res(r.err)]

\* Store.CreateObject: Upload is handed rd, the reader GetStreamSize returned
awsCreateObject(s, s3, name, data, contentType, fault) ==
    LET sp == SplitPath(s.bucket, name)
        probe == GetStreamSize(data)
        rd == IF probe.rd = "buf" THEN probe.buf ELSE probe.data
        r == AwsUpload(s3, sp.bucket, sp.object, rd, contentType, fault)
    IN  IF sp.err # Nil THEN [s |-> s, s3 |-> s3, res |-> Res(sp.err)]
        ELSE IF probe.err # Nil THEN [s |-> s, s3 |-> s3, res |-> Res(ErrPreconditionFailed)]
        ELSE [s |-> s, s3 |-> r.s3, res |-> Res(r.err)]

\* Store.DeleteObject
awsDeleteObject(s, s3, name, fault) ==
    LET sp == SplitPath(s.bucket, name)
        r == NativeRemoveObject(s3, sp.bucket, sp.object, fault)
    IN  IF sp.err # Nil THEN [s |-> s, s3 |-> s3, res |-> Res(sp.err)]
        ELSE [s |-> s, s3 |-> r.s3, res |-> Res(r.err)]

\* Store.Exists
awsExists(s, s3, name, fault) ==
    LET sp == SplitPath(s.bucket, name)
        head == AwsHeadObject(s3, sp.bucket, sp.object, fault)
    IN  IF sp.err # Nil THEN [s |-> s, s3 |-> s3, res |-> Res(sp.err)]
        ELSE IF head.err # Nil
        THEN IF head.err = "NotFound"
             THEN [s |-> s, s3 |-> s3, res |-> Res(Nil)]
             ELSE [s |-> s, s3 |-> s3, res |-> Res(head.err)]
        ELSE [s |-> s, s3 |-> s3,
              res |-> [Res(Nil) EXCEPT
                         !.found = TRUE,
                         !.meta = <<Meta(sp.object, head.size, head.contentType)>>]]

\* NewStore: [store, err]; an empty Region of the configuration is replaced
awsNewStore(cfg) ==
    [store |-> <<[bucket |-> cfg.Bucket,
                  region |-> IF cfg.Region = "" THEN DefaultRegion ELSE cfg.Region]>>,
     err |-> Nil]

\* Store.Setup
awsSetup(s, s3) == [s |-> s, s3 |-> s3, res |-> Res(Nil)]

\* Store.HealthCheck
awsHealthCheck(s, s3, fault) ==
    IF NativeListBuckets(s3, fault).err # Nil
    THEN [s |-> s, s3 |-> s3, res |-> Res(ErrClientInit)]
    ELSE [s |-> s, s3 |-> s3, res |-> Res(Nil)]

\* Store.SetRegion
awsSetRegion(s, s3, region) == [s |-> [s EXCEPT !.region = region], s3 |-> s3, res |-> Res(Nil)]

\* Store.ListBuckets
awsListBuckets(s, s3, fault) ==
    LET out == NativeListBuckets(s3, fault)
    IN  IF out.err # Nil THEN [s |-> s, s3 |-> s3, res |-> Res(out.err)]
        ELSE [s |-> s, s3 |-> s3, res |-> [Res(Nil) EXCEPT !.list = out.names]]

\* Store.ReadObject
awsReadObject(s, s3, name, fault) ==
    LET sp == SplitPath(s.bucket, name)
        r == NativeGetObject(s3, sp.bucket, sp.object, fault)
    IN  IF sp.err # Nil THEN [s |-> s, s3 |-> s3, res |-> Res(sp.err)]
        ELSE IF r.err # Nil THEN [s |-> s, s3 |-> s3, res |-> Res(r.err)]
        ELSE [s |-> s, s3 |-> s3, res |-> [Res(Nil) EXCEPT !.data = r.data]]

\* Store.UpdateObject; fault is for Exists, fault2 for CreateObject
awsUpdateObject(s, s3, name, data, fault, fault2) ==
    LET e == awsExists(s, s3, name, fault).res
    IN  IF e.err # Nil \/ ~e.found THEN [s |-> s, s3 |-> s3, res |-> Res(ErrObjectNotFound)]
        ELSE awsCreateObject(s, s3, name, data, e.meta[1].ContentType, fault2)

\* Store.ListObjects: an unset s.bucket is overwritten with the argument
awsListObjects(s, s3, bucketName, fault) ==
    LET t == IF s.bucket = <<>> THEN [s EXCEPT !.bucket = bucketName] ELSE s
        out == NativeListObjects(s3, t.bucket, fault)
    IN  IF out.err # Nil THEN [s |-> t, s3 |-> s3, res |-> Res(out.err)]
        ELSE [s |-> t, s3 |-> s3,
              res |-> [Res(Nil) EXCEPT
                         !.list = {Meta(k, Len(s3.objects[<<t.bucket, k>>].data), OctetStream) :
                                     k \in out.keys}]]

\* Store.Metadata
awsMetadata(s, s3, name, fault) ==
    LET e == awsExists(s, s3, name, fault).res
    IN  IF e.err # Nil \/ ~e.found THEN [s |-> s, s3 |-> s3, res |-> Res(e.err)]
        ELSE [s |-> s, s3 |-> s3, res |-> [Res(Nil) EXCEPT !.meta = e.meta]]

\* Store.CopyObject
awsCopyObject(s, s3, src, dest, fault) ==
    LET a == SplitPath(s.bucket, src)
        b == SplitPath(s.bucket, dest)
        source == a.bucket \o <<"/">> \o a.object
        r == AwsCopyFrom(s3, source, b.bucket, b.object, fault)
    IN  IF a.err # Nil THEN [s |-> s, s3 |-> s3, res |-> Res(a.err)]
        ELSE IF b.err # Nil THEN [s |-> s, s3 |-> s3, res |-> Res(b.err)]
        ELSE [s |-> s, s3 |-> r.s3, res |-> Res(r.err)]

\* Store.MoveObject; fault is for CopyObject, fault2 for DeleteObject
awsMoveObject(s, s3, src, dest, fault, fault2) ==
    LET c == awsCopyObject(s, s3, src, dest, fault)
    IN  IF c.res.err # Nil THEN c
        ELSE awsDeleteObject(c.s, c.s3, src, fault2)

\* Store.CleanUp
awsCleanUp(s, s3) == [s |-> s, s3 |-> s3, res |-> Res(Nil)]

(***************************************************************************)
(* The driver registry.                                                    *)
(*                                                                         *)
(* A Driver is one of the constructors the repository registers: the       *)
(* closures of the filesystem and minio packages' init(), and the README's *)
(* mock.  A configuration value carries its type and whether its required  *)
(* field (BasePath, Endpoint) is set; its DriverName() is fixed by its     *)
(* type.                                                                   *)
(***************************************************************************)
DriverNames == {"filesystem", "minio", "mock"}

Constructors == {"filesystem", "minio", "mock"}

Configs == [type : DriverNames, valid : BOOLEAN]

\* Config.DriverName()
DriverName(config) == config.type

\* what a registered constructor returns for a configuration: [store, err]
Construct(driver, config) ==
    CASE driver = "filesystem" ->
            IF config.type # "filesystem" THEN [store |-> Nil, err |-> ErrClientInit]
            ELSE IF ~config.valid THEN [store |-> Nil, err |-> ErrInvalidEndpoint]
            ELSE [store |-> <<"filesystem.Store", config>>, err |-> Nil]
      [] driver = "minio" ->
            IF config.type # "minio" THEN [store |-> Nil, err |-> ErrClientInit]
            ELSE IF ~config.valid THEN [store |-> Nil, err |-> ErrInvalidEndpoint]
            ELSE [store |-> <<"minio.Store", config>>, err |-> Nil]
      [] OTHER -> [store |-> <<"MockStore">>, err |-> Nil]

\* the empty map
NoDrivers == [n \in {} |-> "mock"]

\* Register that keeps an earlier registration of the name
RegisterKeepsFirst(drvs, name, driver) ==
    [n \in (DOMAIN drvs) \cup {name} |->
        IF n \in DOMAIN drvs THEN drvs[n] ELSE driver]

\* objex.Register: drivers[name] = driver
Register(drvs, name, driver) ==
    [n \in (DOMAIN drvs) \cup {name} |-> IF n = name THEN driver ELSE drvs[n]]

\* New that falls back to the mock constructor for a name it does not know
NewFallsBack(drvs, config) ==
    LET driverName == DriverName(config)
        driver == IF driverName \in DOMAIN drvs THEN drvs[driverName] ELSE "mock"
        r == Construct(driver, config)
    IN  [calls |-> <<[driver |-> driver, config |-> config]>>,
         store |-> r.store, err |-> r.err]

\* objex.New: the constructors it invokes, in order, and what it returns
New(drvs, config) ==
    LET driverName == DriverName(config)
    IN  IF driverName \notin DOMAIN drvs
        THEN [calls |-> <<>>, store |-> Nil, err |-> ErrUnknownDriver]
        ELSE LET r == Construct(drvs[driverName], config)
             IN  [calls |-> <<[driver |-> drvs[driverName], config |-> config]>>,
                  store |-> r.store, err |-> r.err]

(***************************************************************************)
(* State of the path-resolver runs: one call of one resolver on one input. *)
(***************************************************************************)
VARIABLES
    pBucket,    \* the currentBucket argument
    pPath,      \* the fullPath argument
    pWho,       \* the resolver that ran: "none", "SplitPath", "splitPathFS",
                \* "minioCopySplit"
    pRes        \* what it returned

pathVars == <<pBucket, pPath, pWho, pRes>>

(***************************************************************************)
(* State of the driver registry.                                           *)
(***************************************************************************)
VARIABLES
    drivers,    \* var drivers map[string]Driver: a function on the names registered
    regLog,     \* history: the Register calls so far, in order, as <<name, driver>>
    rLast,      \* history: the last registry call, "none", "Register" or "New"
    rPrev,      \* history: drivers before the last registry call
    newConfig,  \* the argument of the last New
    newOut      \* what the last New did: [calls, store, err]

regVars == <<drivers, regLog, rLast, rPrev, newConfig, newOut>>

(***************************************************************************)
(* State of two goroutines that each call Register once, at the same time. *)
(* Register is the single statement drivers[name] = driver on a package    *)
(* level map with no lock: the assignment reads the map's table and then   *)
(* writes into it, and two assignments that overlap are a data race.       *)
(***************************************************************************)
VARIABLES
    gPc,        \* where each goroutine is: "start", "writing", "done" ("idle": no run)
    gArgs,      \* each goroutine's Register arguments, [name, driver]
    gSeen,      \* the map as each goroutine read it when its assignment began
    gFatal      \* the runtime stopped the process: "fatal error: concurrent map writes"

raceVars == <<gPc, gArgs, gSeen, gFatal>>

(***************************************************************************)
(* State of the stream-prober runs: one call, then a read of its reader.   *)
(***************************************************************************)
VARIABLES
    sIn,        \* the stream handed to GetStreamSize, as it was before the call
    sPc,        \* "none", "probed" (GetStreamSize returned), "read"
    sOut,       \* what GetStreamSize returned and left behind
    sRead       \* what io.ReadAll of the returned reader delivered

streamVars == <<sIn, sPc, sOut, sRead>>

(***************************************************************************)
(* State of one Store and of the storage behind it.                        *)
(***************************************************************************)
VARIABLES
    backend,    \* the adapter: "filesystem", "minio" or "aws"
    store,      \* the Store's fields: [bucket]
    fs,         \* filesystem: the file system below basePath
    s3,         \* minio, aws: the object store the client talks to
    last,       \* history: the last method call, [op, name, dest, data, fault, res]
    prev,       \* history: [store, fs, s3] before the last call
    steps       \* the number of calls so far

storeVars == <<backend, store, fs, s3, last, prev, steps>>

vars == <<pBucket, pPath, pWho, pRes, drivers, regLog, rLast, rPrev, newConfig, newOut,
          sIn, sPc, sOut, sRead, backend, store, fs, s3, last, prev, steps,
          gPc, gArgs, gSeen, gFatal>>

NoRes == [bucket |-> <<>>, object |-> <<>>, err |-> "none"]

PathInit ==
    /\ pBucket \in StringsUpTo(MaxLen)
    /\ pPath \in StringsUpTo(MaxLen)
    /\ pWho = "none"
    /\ pRes = NoRes

PathIdle ==
    /\ pBucket = <<>>
    /\ pPath = <<>>
    /\ pWho = "idle"
    /\ pRes = NoRes

CallSplitPath ==
    /\ pWho = "none"
    /\ pWho' = "SplitPath"
    /\ pRes' = SplitPath(pBucket, pPath)
    /\ UNCHANGED <<pBucket, pPath>>
    /\ UNCHANGED <<regVars, streamVars, storeVars, raceVars>>

CallSplitPathFS ==
    /\ pWho = "none"
    /\ pWho' = "splitPathFS"
    /\ pRes' = splitPathFS(pBucket, pPath)
    /\ UNCHANGED <<pBucket, pPath>>
    /\ UNCHANGED <<regVars, streamVars, storeVars, raceVars>>

\* the split minio's CopyObject does inline on its source and on its destination
CallMinioCopySplit ==
    /\ pWho = "none"
    /\ pWho' = "minioCopySplit"
    /\ pRes' = minioCopySplit(pBucket, pPath)
    /\ UNCHANGED <<pBucket, pPath>>
    /\ UNCHANGED <<regVars, streamVars, storeVars, raceVars>>

PathNext ==
    \/ CallSplitPath
    \/ CallSplitPathFS
    \/ CallMinioCopySplit


(***************************************************************************)
(* The registry's runs: any sequence of Register and New calls.            *)
(***************************************************************************)
NoConfig == [type |-> "none", valid |-> FALSE]

NoOut == [calls |-> <<>>, store |-> Nil, err |-> "none"]

RegInit ==
    /\ drivers = NoDrivers
    /\ regLog = <<>>
    /\ rLast = "none"
    /\ rPrev = NoDrivers
    /\ newConfig = NoConfig
    /\ newOut = NoOut

RegIdle ==
    /\ drivers = NoDrivers
    /\ regLog = <<>>
    /\ rLast = "idle"
    /\ rPrev = NoDrivers
    /\ newConfig = NoConfig
    /\ newOut = NoOut

CallRegister(name, driver) ==
    /\ rLast # "idle"
    /\ Len(regLog) < MaxRegs
    /\ drivers' = Register(drivers, name, driver)
    /\ regLog' = Append(regLog, <<name, driver>>)
    /\ rLast' = "Register"
    /\ rPrev' = drivers
    /\ UNCHANGED <<newConfig, newOut>>
    /\ UNCHANGED <<pathVars, streamVars, storeVars, raceVars>>

CallNew(config) ==
    /\ rLast # "idle"
    /\ newOut' = New(drivers, config)
    /\ newConfig' = config
    /\ rLast' = "New"
    /\ rPrev' = drivers
    /\ UNCHANGED <<drivers, regLog>>
    /\ UNCHANGED <<pathVars, streamVars, storeVars, raceVars>>

RegNext ==
    \/ \E name \in DriverNames, driver \in Constructors : CallRegister(name, driver)
    \/ \E config \in Configs : CallNew(config)

(***************************************************************************)
(* The stream prober's runs.                                               *)
(***************************************************************************)
NoProbe == [rd |-> Nil, size |-> 0, err |-> "none", data |-> NoStream, buf |-> NoStream]

NoRead == [data |-> <<>>, err |-> "none"]

StreamInit ==
    /\ sIn \in {st \in Streams : ValidStream(st)}
    /\ sPc = "none"
    /\ sOut = NoProbe
    /\ sRead = NoRead

StreamIdle ==
    /\ sIn = NoStream
    /\ sPc = "idle"
    /\ sOut = NoProbe
    /\ sRead = NoRead

CallGetStreamSize ==
    /\ sPc = "none"
    /\ sOut' = GetStreamSize(sIn)
    /\ sPc' = "probed"
    /\ UNCHANGED <<sIn, sRead>>
    /\ UNCHANGED <<pathVars, regVars, storeVars, raceVars>>

\* the caller reads the reader GetStreamSize returned to its end
ReadReturned ==
    /\ sPc = "probed"
    /\ sOut.rd # Nil
    /\ sRead' = ReadAll(IF sOut.rd = "data" THEN sOut.data ELSE sOut.buf)
    /\ sPc' = "read"
    /\ UNCHANGED <<sIn, sOut>>
    /\ UNCHANGED <<pathVars, regVars, storeVars, raceVars>>

StreamNext ==
    \/ CallGetStreamSize
    \/ ReadReturned

(***************************************************************************)
(* The Store's runs: any sequence of at most MaxSteps method calls on one  *)
(* Store of one backend, each call with a name, a stream and a fault drawn *)
(* from the sets below.                                                    *)
(***************************************************************************)
Backends == {"filesystem", "minio", "aws"}

\* "", "a", "/", "a/", "a/b", "a//b", "a/b/a", "b/a"
StoreNames ==
    {<<>>, <<"a">>, <<"/">>, <<"a", "/">>, <<"a", "/", "b">>,
     <<"a", "/", "/", "b">>, <<"a", "/", "b", "/", "a">>, <<"b", "/", "a">>}

\* a seekable stream read half way, a pipe, a pipe that breaks
StoreStreams ==
    {[seekable |-> TRUE, bytes |-> <<0, 1>>, pos |-> 1, seekFail |-> {},
      failAt |-> -1, failErr |-> Nil],
     [seekable |-> FALSE, bytes |-> <<0, 1>>, pos |-> 0, seekFail |-> {},
      failAt |-> -1, failErr |-> Nil],
     [seekable |-> FALSE, bytes |-> <<1, 1>>, pos |-> 0, seekFail |-> {},
      failAt |-> 1, failErr |-> "unexpected EOF"]}

ContentTypes == {"", "text/plain"}

\* the names given to a minio or aws Store: "", "a", "a/", "a/b", "b/a"
S3Names ==
    {<<>>, <<"a">>, <<"a", "/">>, <<"a", "/", "b">>, <<"b", "/", "a">>}

Regions == {"", "eu"}

\* the faults of the two native calls of UpdateObject and of MoveObject
FaultPairs ==
    {<<"none", "none">>, <<"none", "AccessDenied">>, <<"none", Transport>>,
     <<"AccessDenied", "none">>, <<Transport, "none">>, <<Transport, "AccessDenied">>}

\* the configurations NewStore is called with
FSConfigs == [BasePath : {"", "T"}]

MinioConfigs == [Endpoint : {"", "e"}, AccessKey : {"", "k"}, SecretKey : {"", "s"},
                 Region : {""}]

AwsConfigs == [Region : {""}, Bucket : {<<>>, <<"a">>}]

\* the Stores NewStore returns
NewStores(which) ==
    LET made == IF which = "filesystem" THEN {fsNewStore(c) : c \in FSConfigs}
                ELSE IF which = "minio" THEN {minioNewStore(c) : c \in MinioConfigs}
                ELSE {awsNewStore(c) : c \in AwsConfigs}
    IN  {m.store[1] : m \in {n \in made : n.err = Nil}}

NoCall == [op |-> "none", name |-> <<>>, dest |-> <<>>, data |-> NoStream,
           fault |-> "none", fault2 |-> "none", res |-> Res("none")]

\* the service when the Store is made: it holds the empty bucket "a"
InitialS3 == [EmptyS3 EXCEPT !.buckets = {<<"a">>}]

StoreInit ==
    /\ backend \in Backends
    /\ store \in NewStores(backend)
    /\ fs = EmptyFS
    /\ s3 = IF backend = "filesystem" THEN EmptyS3 ELSE InitialS3
    /\ last = NoCall
    /\ prev = [store |-> store, fs |-> fs, s3 |-> s3]
    /\ steps = 0

StoreIdle ==
    /\ backend = "idle"
    /\ store = [bucket |-> <<>>]
    /\ fs = EmptyFS
    /\ s3 = EmptyS3
    /\ last = NoCall
    /\ prev = [store |-> store, fs |-> fs, s3 |-> s3]
    /\ steps = 0

\* the bookkeeping of one method call: the state before it, the call, its result
Returned2(op, name, dest, data, fault, fault2, res) ==
    /\ steps' = steps + 1
    /\ prev' = [store |-> store, fs |-> fs, s3 |-> s3]
    /\ last' = [op |-> op, name |-> name, dest |-> dest, data |-> data,
                fault |-> fault, fault2 |-> fault2, res |-> res]
    /\ UNCHANGED <<pathVars, regVars, streamVars, raceVars>>

Returned(op, name, dest, data, fault, res) ==
    Returned2(op, name, dest, data, fault, "none", res)

FSSetBucket(name) ==
    /\ backend = "filesystem"
    /\ steps < MaxSteps
    /\ LET out == fsSetBucket(store, fs, name)
       IN  /\ store' = out.s
           /\ fs' = out.fs
           /\ Returned("SetBucket", name, <<>>, NoStream, "none", out.res)
    /\ UNCHANGED <<backend, s3>>

FSCreateBucket(name) ==
    /\ backend = "filesystem"
    /\ steps < MaxSteps
    /\ LET out == fsCreateBucket(store, fs, name)
       IN  /\ store' = out.s
           /\ fs' = out.fs
           /\ Returned("CreateBucket", name, <<>>, NoStream, "none", out.res)
    /\ UNCHANGED <<backend, s3>>

FSDeleteBucket(name) ==
    /\ backend = "filesystem"
    /\ steps < MaxSteps
    /\ LET out == fsDeleteBucket(store, fs, name)
       IN  /\ store' = out.s
           /\ fs' = out.fs
           /\ Returned("DeleteBucket", name, <<>>, NoStream, "none", out.res)
    /\ UNCHANGED <<backend, s3>>

FSCreateObject(name, data, contentType) ==
    /\ backend = "filesystem"
    /\ steps < MaxSteps
    /\ LET out == fsCreateObject(store, fs, name, data, contentType)
       IN  /\ store' = out.s
           /\ fs' = out.fs
           /\ Returned("CreateObject", name, <<>>, data, "none", out.res)
    /\ UNCHANGED <<backend, s3>>

FSReadObject(name) ==
    /\ backend = "filesystem"
    /\ steps < MaxSteps
    /\ LET out == fsReadObject(store, fs, name)
       IN  /\ store' = out.s
           /\ fs' = out.fs
           /\ Returned("ReadObject", name, <<>>, NoStream, "none", out.res)
    /\ UNCHANGED <<backend, s3>>

FSDeleteObject(name) ==
    /\ backend = "filesystem"
    /\ steps < MaxSteps
    /\ LET out == fsDeleteObject(store, fs, name)
       IN  /\ store' = out.s
           /\ fs' = out.fs
           /\ Returned("DeleteObject", name, <<>>, NoStream, "none", out.res)
    /\ UNCHANGED <<backend, s3>>

FSExists(name) ==
    /\ backend = "filesystem"
    /\ steps < MaxSteps
    /\ LET out == fsExists(store, fs, name)
       IN  /\ store' = out.s
           /\ fs' = out.fs
           /\ Returned("Exists", name, <<>>, NoStream, "none", out.res)
    /\ UNCHANGED <<backend, s3>>

FSCopyObject(src, dest) ==
    /\ backend = "filesystem"
    /\ steps < MaxSteps
    /\ LET out == fsCopyObject(store, fs, src, dest)
       IN  /\ store' = out.s
           /\ fs' = out.fs
           /\ Returned("CopyObject", src, dest, NoStream, "none", out.res)
    /\ UNCHANGED <<backend, s3>>

FSMoveObject(src, dest) ==
    /\ backend = "filesystem"
    /\ steps < MaxSteps
    /\ LET out == fsMoveObject(store, fs, src, dest)
       IN  /\ store' = out.s
           /\ fs' = out.fs
           /\ Returned("MoveObject", src, dest, NoStream, "none", out.res)
    /\ UNCHANGED <<backend, s3>>

MinioSetBucket(name, fault) ==
    /\ backend = "minio"
    /\ steps < MaxSteps
    /\ LET out == minioSetBucket(store, s3, name, fault)
       IN  /\ store' = out.s
           /\ s3' = out.s3
           /\ Returned("SetBucket", name, <<>>, NoStream, fault, out.res)
    /\ UNCHANGED <<backend, fs>>

MinioCreateBucket(name, fault) ==
    /\ backend = "minio"
    /\ steps < MaxSteps
    /\ LET out == minioCreateBucket(store, s3, name, fault)
       IN  /\ store' = out.s
           /\ s3' = out.s3
           /\ Returned("CreateBucket", name, <<>>, NoStream, fault, out.res)
    /\ UNCHANGED <<backend, fs>>

MinioDeleteBucket(name, fault) ==
    /\ backend = "minio"
    /\ steps < MaxSteps
    /\ LET out == minioDeleteBucket(store, s3, name, fault)
       IN  /\ store' = out.s
           /\ s3' = out.s3
           /\ Returned("DeleteBucket", name, <<>>, NoStream, fault, out.res)
    /\ UNCHANGED <<backend, fs>>

MinioCreateObject(name, data, contentType, fault) ==
    /\ backend = "minio"
    /\ steps < MaxSteps
    /\ LET out == minioCreateObject(store, s3, name, data, contentType, fault)
       IN  /\ store' = out.s
           /\ s3' = out.s3
           /\ Returned("CreateObject", name, <<>>, data, fault, out.res)
    /\ UNCHANGED <<backend, fs>>

MinioDeleteObject(name, fault) ==
    /\ backend = "minio"
    /\ steps < MaxSteps
    /\ LET out == minioDeleteObject(store, s3, name, fault)
       IN  /\ store' = out.s
           /\ s3' = out.s3
           /\ Returned("DeleteObject", name, <<>>, NoStream, fault, out.res)
    /\ UNCHANGED <<backend, fs>>

MinioExists(name, fault) ==
    /\ backend = "minio"
    /\ steps < MaxSteps
    /\ LET out == minioExists(store, s3, name, fault)
       IN  /\ store' = out.s
           /\ s3' = out.s3
           /\ Returned("Exists", name, <<>>, NoStream, fault, out.res)
    /\ UNCHANGED <<backend, fs>>

AwsSetBucket(name, fault) ==
    /\ backend = "aws"
    /\ steps < MaxSteps
    /\ LET out == awsSetBucket(store, s3, name, fault)
       IN  /\ store' = out.s
           /\ s3' = out.s3
           /\ Returned("SetBucket", name, <<>>, NoStream, fault, out.res)
    /\ UNCHANGED <<backend, fs>>

AwsCreateBucket(name, fault) ==
    /\ backend = "aws"
    /\ steps < MaxSteps
    /\ LET out == awsCreateBucket(store, s3, name, fault)
       IN  /\ store' = out.s
           /\ s3' = out.s3
           /\ Returned("CreateBucket", name, <<>>, NoStream, fault, out.res)
    /\ UNCHANGED <<backend, fs>>

AwsDeleteBucket(name, fault) ==
    /\ backend = "aws"
    /\ steps < MaxSteps
    /\ LET out == awsDeleteBucket(store, s3, name, fault)
       IN  /\ store' = out.s
           /\ s3' = out.s3
           /\ Returned("DeleteBucket", name, <<>>, NoStream, fault, out.res)
    /\ UNCHANGED <<backend, fs>>

AwsCreateObject(name, data, contentType, fault) ==
    /\ backend = "aws"
    /\ steps < MaxSteps
    /\ LET out == awsCreateObject(store, s3, name, data, contentType, fault)
       IN  /\ store' = out.s
           /\ s3' = out.s3
           /\ Returned("CreateObject", name, <<>>, data, fault, out.res)
    /\ UNCHANGED <<backend, fs>>

AwsDeleteObject(name, fault) ==
    /\ backend = "aws"
    /\ steps < MaxSteps
    /\ LET out == awsDeleteObject(store, s3, name, fault)
       IN  /\ store' = out.s
           /\ s3' = out.s3
           /\ Returned("DeleteObject", name, <<>>, NoStream, fault, out.res)
    /\ UNCHANGED <<backend, fs>>

AwsExists(name, fault) ==
    /\ backend = "aws"
    /\ steps < MaxSteps
    /\ LET out == awsExists(store, s3, name, fault)
       IN  /\ store' = out.s
           /\ s3' = out.s3
           /\ Returned("Exists", name, <<>>, NoStream, fault, out.res)
    /\ UNCHANGED <<backend, fs>>

FSSetup ==
    /\ backend = "filesystem"
    /\ steps < MaxSteps
    /\ LET out == fsSetup(store, fs)
       IN  /\ store' = out.s
           /\ fs' = out.fs
           /\ Returned("Setup", <<>>, <<>>, NoStream, "none", out.res)
    /\ UNCHANGED <<backend, s3>>

FSSetRegion(region) ==
    /\ backend = "filesystem"
    /\ steps < MaxSteps
    /\ LET out == fsSetRegion(store, fs, region)
       IN  /\ store' = out.s
           /\ fs' = out.fs
           /\ Returned("SetRegion", <<>>, <<>>, NoStream, "none", out.res)
    /\ UNCHANGED <<backend, s3>>

FSListBuckets ==
    /\ backend = "filesystem"
    /\ steps < MaxSteps
    /\ LET out == fsListBuckets(store, fs)
       IN  /\ store' = out.s
           /\ fs' = out.fs
           /\ Returned("ListBuckets", <<>>, <<>>, NoStream, "none", out.res)
    /\ UNCHANGED <<backend, s3>>

FSUpdateObject(name, data) ==
    /\ backend = "filesystem"
    /\ steps < MaxSteps
    /\ LET out == fsUpdateObject(store, fs, name, data)
       IN  /\ store' = out.s
           /\ fs' = out.fs
           /\ Returned("UpdateObject", name, <<>>, data, "none", out.res)
    /\ UNCHANGED <<backend, s3>>

FSListObjects(name) ==
    /\ backend = "filesystem"
    /\ steps < MaxSteps
    /\ LET out == fsListObjects(store, fs, name)
       IN  /\ store' = out.s
           /\ fs' = out.fs
           /\ Returned("ListObjects", name, <<>>, NoStream, "none", out.res)
    /\ UNCHANGED <<backend, s3>>

FSMetadata(name) ==
    /\ backend = "filesystem"
    /\ steps < MaxSteps
    /\ LET out == fsMetadata(store, fs, name)
       IN  /\ store' = out.s
           /\ fs' = out.fs
           /\ Returned("Metadata", name, <<>>, NoStream, "none", out.res)
    /\ UNCHANGED <<backend, s3>>

FSCleanUp ==
    /\ backend = "filesystem"
    /\ steps < MaxSteps
    /\ LET out == fsCleanUp(store, fs)
       IN  /\ store' = out.s
           /\ fs' = out.fs
           /\ Returned("CleanUp", <<>>, <<>>, NoStream, "none", out.res)
    /\ UNCHANGED <<backend, s3>>

FSHealthCheck ==
    /\ backend = "filesystem"
    /\ steps < MaxSteps
    /\ LET out == fsHealthCheck(store, fs)
       IN  /\ store' = out.s
           /\ fs' = out.fs
           /\ Returned("HealthCheck", <<>>, <<>>, NoStream, "none", out.res)
    /\ UNCHANGED <<backend, s3>>

MinioSetup ==
    /\ backend = "minio"
    /\ steps < MaxSteps
    /\ LET out == minioSetup(store, s3)
       IN  /\ store' = out.s
           /\ s3' = out.s3
           /\ Returned("Setup", <<>>, <<>>, NoStream, "none", out.res)
    /\ UNCHANGED <<backend, fs>>

MinioHealthCheck ==
    /\ backend = "minio"
    /\ steps < MaxSteps
    /\ LET out == minioHealthCheck(store, s3)
       IN  /\ store' = out.s
           /\ s3' = out.s3
           /\ Returned("HealthCheck", <<>>, <<>>, NoStream, "none", out.res)
    /\ UNCHANGED <<backend, fs>>

MinioSetRegion(region) ==
    /\ backend = "minio"
    /\ steps < MaxSteps
    /\ LET out == minioSetRegion(store, s3, region)
       IN  /\ store' = out.s
           /\ s3' = out.s3
           /\ Returned("SetRegion", <<>>, <<>>, NoStream, "none", out.res)
    /\ UNCHANGED <<backend, fs>>

MinioListBuckets(fault) ==
    /\ backend = "minio"
    /\ steps < MaxSteps
    /\ LET out == minioListBuckets(store, s3, fault)
       IN  /\ store' = out.s
           /\ s3' = out.s3
           /\ Returned("ListBuckets", <<>>, <<>>, NoStream, fault, out.res)
    /\ UNCHANGED <<backend, fs>>

MinioReadObject(name, fault) ==
    /\ backend = "minio"
    /\ steps < MaxSteps
    /\ LET out == minioReadObject(store, s3, name, fault)
       IN  /\ store' = out.s
           /\ s3' = out.s3
           /\ Returned("ReadObject", name, <<>>, NoStream, fault, out.res)
    /\ UNCHANGED <<backend, fs>>

MinioUpdateObject(name, data, fault, fault2) ==
    /\ backend = "minio"
    /\ steps < MaxSteps
    /\ LET out == minioUpdateObject(store, s3, name, data, fault, fault2)
       IN  /\ store' = out.s
           /\ s3' = out.s3
           /\ Returned2("UpdateObject", name, <<>>, data, fault, fault2, out.res)
    /\ UNCHANGED <<backend, fs>>

MinioListObjects(name, fault) ==
    /\ backend = "minio"
    /\ steps < MaxSteps
    /\ LET out == minioListObjects(store, s3, name, fault)
       IN  /\ store' = out.s
           /\ s3' = out.s3
           /\ Returned("ListObjects", name, <<>>, NoStream, fault, out.res)
    /\ UNCHANGED <<backend, fs>>

MinioMetadata(name, fault) ==
    /\ backend = "minio"
    /\ steps < MaxSteps
    /\ LET out == minioMetadata(store, s3, name, fault)
       IN  /\ store' = out.s
           /\ s3' = out.s3
           /\ Returned("Metadata", name, <<>>, NoStream, fault, out.res)
    /\ UNCHANGED <<backend, fs>>

MinioCopyObject(src, dest, fault) ==
    /\ backend = "minio"
    /\ steps < MaxSteps
    /\ LET out == minioCopyObject(store, s3, src, dest, fault)
       IN  /\ store' = out.s
           /\ s3' = out.s3
           /\ Returned("CopyObject", src, dest, NoStream, fault, out.res)
    /\ UNCHANGED <<backend, fs>>

MinioMoveObject(src, dest, fault, fault2) ==
    /\ backend = "minio"
    /\ steps < MaxSteps
    /\ LET out == minioMoveObject(store, s3, src, dest, fault, fault2)
       IN  /\ store' = out.s
           /\ s3' = out.s3
           /\ Returned2("MoveObject", src, dest, NoStream, fault, fault2, out.res)
    /\ UNCHANGED <<backend, fs>>

MinioCleanUp ==
    /\ backend = "minio"
    /\ steps < MaxSteps
    /\ LET out == minioCleanUp(store, s3)
       IN  /\ store' = out.s
           /\ s3' = out.s3
           /\ Returned("CleanUp", <<>>, <<>>, NoStream, "none", out.res)
    /\ UNCHANGED <<backend, fs>>

AwsSetup ==
    /\ backend = "aws"
    /\ steps < MaxSteps
    /\ LET out == awsSetup(store, s3)
       IN  /\ store' = out.s
           /\ s3' = out.s3
           /\ Returned("Setup", <<>>, <<>>, NoStream, "none", out.res)
    /\ UNCHANGED <<backend, fs>>

AwsHealthCheck(fault) ==
    /\ backend = "aws"
    /\ steps < MaxSteps
    /\ LET out == awsHealthCheck(store, s3, fault)
       IN  /\ store' = out.s
           /\ s3' = out.s3
           /\ Returned("HealthCheck", <<>>, <<>>, NoStream, fault, out.res)
    /\ UNCHANGED <<backend, fs>>

AwsSetRegion(region) ==
    /\ backend = "aws"
    /\ steps < MaxSteps
    /\ LET out == awsSetRegion(store, s3, region)
       IN  /\ store' = out.s
           /\ s3' = out.s3
           /\ Returned("SetRegion", <<>>, <<>>, NoStream, "none", out.res)
    /\ UNCHANGED <<backend, fs>>

AwsListBuckets(fault) ==
    /\ backend = "aws"
    /\ steps < MaxSteps
    /\ LET out == awsListBuckets(store, s3, fault)
       IN  /\ store' = out.s
           /\ s3' = out.s3
           /\ Returned("ListBuckets", <<>>, <<>>, NoStream, fault, out.res)
    /\ UNCHANGED <<backend, fs>>

AwsReadObject(name, fault) ==
    /\ backend = "aws"
    /\ steps < MaxSteps
    /\ LET out == awsReadObject(store, s3, name, fault)
       IN  /\ store' = out.s
           /\ s3' = out.s3
           /\ Returned("ReadObject", name, <<>>, NoStream, fault, out.res)
    /\ UNCHANGED <<backend, fs>>

AwsUpdateObject(name, data, fault, fault2) ==
    /\ backend = "aws"
    /\ steps < MaxSteps
    /\ LET out == awsUpdateObject(store, s3, name, data, fault, fault2)
       IN  /\ store' = out.s
           /\ s3' = out.s3
           /\ Returned2("UpdateObject", name, <<>>, data, fault, fault2, out.res)
    /\ UNCHANGED <<backend, fs>>

AwsListObjects(name, fault) ==
    /\ backend = "aws"
    /\ steps < MaxSteps
    /\ LET out == awsListObjects(store, s3, name, fault)
       IN  /\ store' = out.s
           /\ s3' = out.s3
           /\ Returned("ListObjects", name, <<>>, NoStream, fault, out.res)
    /\ UNCHANGED <<backend, fs>>

AwsMetadata(name, fault) ==
    /\ backend = "aws"
    /\ steps < MaxSteps
    /\ LET out == awsMetadata(store, s3, name, fault)
       IN  /\ store' = out.s
           /\ s3' = out.s3
           /\ Returned("Metadata", name, <<>>, NoStream, fault, out.res)
    /\ UNCHANGED <<backend, fs>>

AwsCopyObject(src, dest, fault) ==
    /\ backend = "aws"
    /\ steps < MaxSteps
    /\ LET out == awsCopyObject(store, s3, src, dest, fault)
       IN  /\ store' = out.s
           /\ s3' = out.s3
           /\ Returned("CopyObject", src, dest, NoStream, fault, out.res)
    /\ UNCHANGED <<backend, fs>>

AwsMoveObject(src, dest, fault, fault2) ==
    /\ backend = "aws"
    /\ steps < MaxSteps
    /\ LET out == awsMoveObject(store, s3, src, dest, fault, fault2)
       IN  /\ store' = out.s
           /\ s3' = out.s3
           /\ Returned2("MoveObject", src, dest, NoStream, fault, fault2, out.res)
    /\ UNCHANGED <<backend, fs>>

AwsCleanUp ==
    /\ backend = "aws"
    /\ steps < MaxSteps
    /\ LET out == awsCleanUp(store, s3)
       IN  /\ store' = out.s
           /\ s3' = out.s3
           /\ Returned("CleanUp", <<>>, <<>>, NoStream, "none", out.res)
    /\ UNCHANGED <<backend, fs>>

StoreNext ==
    \/ \E name \in StoreNames : FSSetBucket(name)
    \/ \E name \in StoreNames : FSCreateBucket(name)
    \/ \E name \in StoreNames : FSDeleteBucket(name)
    \/ \E name \in StoreNames, data \in StoreStreams, ct \in ContentTypes :
            FSCreateObject(name, data, ct)
    \/ \E name \in StoreNames : FSReadObject(name)
    \/ \E name \in StoreNames : FSDeleteObject(name)
    \/ \E name \in StoreNames : FSExists(name)
    \/ \E src \in StoreNames, dest \in StoreNames : FSCopyObject(src, dest)
    \/ \E src \in StoreNames, dest \in StoreNames : FSMoveObject(src, dest)
    \/ \E name \in S3Names, fault \in Faults : MinioSetBucket(name, fault)
    \/ \E name \in S3Names, fault \in Faults : MinioCreateBucket(name, fault)
    \/ \E name \in S3Names, fault \in Faults : MinioDeleteBucket(name, fault)
    \/ \E name \in S3Names, data \in StoreStreams, ct \in ContentTypes, fault \in Faults :
            MinioCreateObject(name, data, ct, fault)
    \/ \E name \in S3Names, fault \in Faults : MinioDeleteObject(name, fault)
    \/ \E name \in S3Names, fault \in Faults : MinioExists(name, fault)
    \/ \E name \in S3Names, fault \in Faults : AwsSetBucket(name, fault)
    \/ \E name \in S3Names, fault \in Faults : AwsCreateBucket(name, fault)
    \/ \E name \in S3Names, fault \in Faults : AwsDeleteBucket(name, fault)
    \/ \E name \in S3Names, data \in StoreStreams, ct \in ContentTypes, fault \in Faults :
            AwsCreateObject(name, data, ct, fault)
    \/ \E name \in S3Names, fault \in Faults : AwsDeleteObject(name, fault)
    \/ \E name \in S3Names, fault \in Faults : AwsExists(name, fault)
    \/ FSSetup
    \/ \E region \in Regions : FSSetRegion(region)
    \/ FSListBuckets
    \/ \E name \in StoreNames, data \in StoreStreams : FSUpdateObject(name, data)
    \/ \E name \in StoreNames : FSListObjects(name)
    \/ \E name \in StoreNames : FSMetadata(name)
    \/ FSCleanUp
    \/ FSHealthCheck
    \/ MinioSetup
    \/ MinioHealthCheck
    \/ \E region \in Regions : MinioSetRegion(region)
    \/ \E fault \in Faults : MinioListBuckets(fault)
    \/ \E name \in S3Names, fault \in Faults : MinioReadObject(name, fault)
    \/ \E name \in S3Names, data \in StoreStreams, faults \in FaultPairs : MinioUpdateObject(name, data, faults[1], faults[2])
    \/ \E name \in S3Names, fault \in Faults : MinioListObjects(name, fault)
    \/ \E name \in S3Names, fault \in Faults : MinioMetadata(name, fault)
    \/ \E src \in S3Names, dest \in S3Names, fault \in Faults : MinioCopyObject(src, dest, fault)
    \/ \E src \in S3Names, dest \in S3Names, faults \in FaultPairs : MinioMoveObject(src, dest, faults[1], faults[2])
    \/ MinioCleanUp
    \/ AwsSetup
    \/ \E fault \in Faults : AwsHealthCheck(fault)
    \/ \E region \in Regions : AwsSetRegion(region)
    \/ \E fault \in Faults : AwsListBuckets(fault)
    \/ \E name \in S3Names, fault \in Faults : AwsReadObject(name, fault)
    \/ \E name \in S3Names, data \in StoreStreams, faults \in FaultPairs : AwsUpdateObject(name, data, faults[1], faults[2])
    \/ \E name \in S3Names, fault \in Faults : AwsListObjects(name, fault)
    \/ \E name \in S3Names, fault \in Faults : AwsMetadata(name, fault)
    \/ \E src \in S3Names, dest \in S3Names, fault \in Faults : AwsCopyObject(src, dest, fault)
    \/ \E src \in S3Names, dest \in S3Names, faults \in FaultPairs : AwsMoveObject(src, dest, faults[1], faults[2])
    \/ AwsCleanUp

(***************************************************************************)
(* The specifications: one per component, the others idle.                 *)
(***************************************************************************)
(***************************************************************************)
(* The racing registrations' runs: two goroutines register distinct names, *)
(* their steps interleaved in every way; New is called once both returned. *)
(***************************************************************************)
Goroutines == {1, 2}

Other(g) == 3 - g

RaceInit ==
    /\ drivers \in {NoDrivers, Register(NoDrivers, "mock", "mock")}
    /\ regLog = <<>>
    /\ rLast = "none"
    /\ rPrev = drivers
    /\ newConfig = NoConfig
    /\ newOut = NoOut
    /\ gPc = [g \in Goroutines |-> "start"]
    /\ gArgs \in {a \in [Goroutines -> [name : DriverNames, driver : Constructors]] :
                    a[1].name # a[2].name}
    /\ gSeen = [g \in Goroutines |-> NoDrivers]
    /\ gFatal = FALSE

RaceIdle ==
    /\ gPc = [g \in Goroutines |-> "idle"]
    /\ gArgs = [g \in Goroutines |-> [name |-> "mock", driver |-> "mock"]]
    /\ gSeen = [g \in Goroutines |-> NoDrivers]
    /\ gFatal = FALSE

\* drivers[name] = driver begins: the goroutine reads the map's table
BeginRegister(g) ==
    /\ gPc[g] = "start"
    /\ ~gFatal
    /\ gPc' = [gPc EXCEPT ![g] = "writing"]
    /\ gSeen' = [gSeen EXCEPT ![g] = drivers]
    /\ UNCHANGED <<gArgs, gFatal, regVars>>
    /\ UNCHANGED <<pathVars, streamVars, storeVars>>

\* drivers[name] = driver ends: the entry is written into the table the
\* goroutine read; when no other assignment ran meanwhile that is the map
EndRegister(g) ==
    /\ gPc[g] = "writing"
    /\ ~gFatal
    /\ gPc' = [gPc EXCEPT ![g] = "done"]
    /\ drivers' = Register(gSeen[g], gArgs[g].name, gArgs[g].driver)
    /\ regLog' = Append(regLog, <<gArgs[g].name, gArgs[g].driver>>)
    /\ rLast' = "Register"
    /\ rPrev' = drivers
    /\ UNCHANGED <<gArgs, gSeen, gFatal, newConfig, newOut>>
    /\ UNCHANGED <<pathVars, streamVars, storeVars>>

\* two assignments overlap and the second one's write finds the first one's
\* entry in place: both entries are in the map
EndRegisterMerged(g) ==
    /\ gPc[g] = "writing"
    /\ ~gFatal
    /\ gSeen[g] # drivers
    /\ gPc' = [gPc EXCEPT ![g] = "done"]
    /\ drivers' = Register(drivers, gArgs[g].name, gArgs[g].driver)
    /\ regLog' = Append(regLog, <<gArgs[g].name, gArgs[g].driver>>)
    /\ rLast' = "Register"
    /\ rPrev' = drivers
    /\ UNCHANGED <<gArgs, gSeen, gFatal, newConfig, newOut>>
    /\ UNCHANGED <<pathVars, streamVars, storeVars>>

\* two assignments overlap and the runtime's check of the map's writing flag
\* notices: the process is stopped
DetectRace(g) ==
    /\ gPc[g] = "writing"
    /\ gPc[Other(g)] = "writing"
    /\ ~gFatal
    /\ gFatal' = TRUE
    /\ UNCHANGED <<gPc, gArgs, gSeen, regVars>>
    /\ UNCHANGED <<pathVars, streamVars, storeVars>>

\* New(config) once both Register calls returned
NewAfterBoth(config) ==
    /\ \A g \in Goroutines : gPc[g] = "done"
    /\ ~gFatal
    /\ rLast # "New"
    /\ newOut' = New(drivers, config)
    /\ newConfig' = config
    /\ rLast' = "New"
    /\ rPrev' = drivers
    /\ UNCHANGED <<drivers, regLog, raceVars>>
    /\ UNCHANGED <<pathVars, streamVars, storeVars>>

RaceNext ==
    \/ \E g \in Goroutines : BeginRegister(g)
    \/ \E g \in Goroutines : EndRegister(g)
    \/ \E g \in Goroutines : EndRegisterMerged(g)
    \/ \E g \in Goroutines : DetectRace(g)
    \/ \E config \in Configs : NewAfterBoth(config)

InitPath == PathInit /\ RegIdle /\ StreamIdle /\ StoreIdle /\ RaceIdle

SpecPath == InitPath /\ [][PathNext]_vars

InitReg == PathIdle /\ RegInit /\ StreamIdle /\ StoreIdle /\ RaceIdle

SpecReg == InitReg /\ [][RegNext]_vars

InitStream == PathIdle /\ RegIdle /\ StreamInit /\ StoreIdle /\ RaceIdle

SpecStream == InitStream /\ [][StreamNext]_vars

InitStore == PathIdle /\ RegIdle /\ StreamIdle /\ StoreInit /\ RaceIdle

SpecStore == InitStore /\ [][StoreNext]_vars

InitRace == PathIdle /\ RaceInit /\ StreamIdle /\ StoreIdle

SpecRace == InitRace /\ [][RaceNext]_vars

\* the names registered so far
Registered == {regLog[i][1] : i \in 1..Len(regLog)}

\* the constructor of the last Register call for a name
LastRegistered(name) ==
    LET latest == CHOOSE i \in 1..Len(regLog) :
                    /\ regLog[i][1] = name
                    /\ \A j \in (i + 1)..Len(regLog) : regLog[j][1] # name
    IN  regLog[latest][2]

(***************************************************************************)
(* C4: after any sequence of Register calls, New(config) invokes the       *)
(* constructor most recently registered under config.DriverName() exactly  *)
(* once, with config, invokes no other constructor, and returns what that  *)
(* constructor returned.                                                   *)
(***************************************************************************)
C4_NewCallsLastRegistered ==
    (rLast = "New" /\ DriverName(newConfig) \in Registered) =>
        LET driver == LastRegistered(DriverName(newConfig))
        IN  /\ newOut.calls = <<[driver |-> driver, config |-> newConfig]>>
            /\ [store |-> newOut.store, err |-> newOut.err] = Construct(driver, newConfig)

\* New ran for a name registered twice, with two different constructors
C4_Witness ==
    /\ rLast = "New"
    /\ Len(newOut.calls) = 1
    /\ \E i, j \in 1..Len(regLog) :
        /\ i < j
        /\ regLog[i][1] = DriverName(newConfig)
        /\ regLog[j][1] = DriverName(newConfig)
        /\ regLog[i][2] # regLog[j][2]
        /\ regLog[j][2] = newOut.calls[1].driver

(***************************************************************************)
(* C5: New(config) for a name never registered returns (nil,               *)
(* unknown-driver), invokes no constructor and leaves the registry as it   *)
(* was.                                                                    *)
(***************************************************************************)
C5_UnknownDriver ==
    (rLast = "New" /\ DriverName(newConfig) \notin Registered) =>
        /\ newOut = [calls |-> <<>>, store |-> Nil, err |-> ErrUnknownDriver]
        /\ drivers = rPrev

\* New ran for an unregistered name while other names were registered
C5_Witness ==
    /\ rLast = "New"
    /\ DriverName(newConfig) \notin Registered
    /\ Registered # {}
    /\ newOut.err = ErrUnknownDriver

C7_NonSeekableBuffered ==
    (sPc \in {"probed", "read"} /\ ~sIn.seekable) =>
        IF sIn.failAt = -1
        THEN /\ sOut.rd = "buf"
             /\ sOut.size = Len(Remaining(sIn))
             /\ sOut.err = Nil
             /\ sPc = "read" => sRead = [data |-> Remaining(sIn), err |-> Nil]
        ELSE /\ sOut.rd = Nil
             /\ sOut.size = 0
             /\ sOut.err = sIn.failErr

\* a non-seekable stream with bytes left was buffered and read back
C7_Witness ==
    /\ sPc = "read"
    /\ ~sIn.seekable
    /\ Len(Remaining(sIn)) >= 2
    /\ sOut.rd = "buf"
    /\ sRead.data = Remaining(sIn)

(***************************************************************************)
(* C1: with a non-empty currentBucket, SplitPath succeeds and returns      *)
(* exactly (currentBucket, fullPath), whatever fullPath holds.             *)
(***************************************************************************)
C1_BoundBucketVerbatim ==
    (pWho = "SplitPath" /\ pBucket # <<>>)
        => pRes = [bucket |-> pBucket, object |-> pPath, err |-> Nil]

\* SplitPath ran with a bucket selected on a path that holds a separator
C1_Witness ==
    /\ pWho = "SplitPath"
    /\ pBucket # <<>>
    /\ \E i \in 1..Len(pPath) : pPath[i] = "/"
    /\ pRes.err = Nil

(***************************************************************************)
(* C2: with an empty currentBucket, SplitPath succeeds exactly when        *)
(* fullPath is b \o "/" \o k for a non-empty b that holds no "/" and a     *)
(* non-empty k, and then returns (b, k); every other fullPath (no "/",     *)
(* "/key", "bucket/", the empty string) fails with invalid-object-name.    *)
(***************************************************************************)
WellFormed(path) ==
    \E i \in 2..(Len(path) - 1) :
        /\ path[i] = "/"
        /\ \A j \in 1..(i - 1) : path[j] # "/"

C2_UnboundSplitsAtFirstSlash ==
    (pWho = "SplitPath" /\ pBucket = <<>>) =>
        IF WellFormed(pPath)
        THEN /\ pRes.err = Nil
             /\ pRes.bucket \o <<"/">> \o pRes.object = pPath
             /\ pRes.bucket # <<>>
             /\ pRes.object # <<>>
             /\ \A j \in 1..Len(pRes.bucket) : pRes.bucket[j] # "/"
        ELSE pRes = [bucket |-> <<>>, object |-> <<>>, err |-> ErrInvalidObjectName]

\* SplitPath without a bucket failed on "bucket/": the part after "/" is empty
C2_Witness ==
    /\ pWho = "SplitPath"
    /\ pBucket = <<>>
    /\ pPath = <<"a", "/">>
    /\ pRes.err = ErrInvalidObjectName

(***************************************************************************)
(* C3: every successful resolution, by SplitPath or by splitPathFS, yields *)
(* a non-empty bucket and a non-empty object key.                          *)
(***************************************************************************)
C3_ResolvedPairNonEmpty ==
    (pWho \in {"SplitPath", "splitPathFS"} /\ pRes.err = Nil)
        => (pRes.bucket # <<>> /\ pRes.object # <<>>)

(***************************************************************************)
(* Claims about the Store methods, read off the last call and the state    *)
(* before it.                                                              *)
(***************************************************************************)
\* the state a call ran in
Before == prev

\* bucket b exists in world w
BucketExists(w, b) ==
    IF backend = "filesystem" THEN IsDir(w.fs, Join(b, <<>>)) ELSE b \in w.s3.buckets

\* bucket b exists in world w and nothing is stored under key k
ObjectAbsent(w, b, k) ==
    /\ BucketExists(w, b)
    /\ IF backend = "filesystem"
       THEN ~IsFile(w.fs, Join(b, k)) /\ ~IsDir(w.fs, Join(b, k))
       ELSE <<b, k>> \notin DOMAIN w.s3.objects

\* a key of non-empty elements: no leading, trailing or doubled "/"
CleanKey(k) ==
    /\ k # <<>>
    /\ k[1] # "/"
    /\ k[Len(k)] # "/"
    /\ \A i \in 1..(Len(k) - 1) : ~(k[i] = "/" /\ k[i + 1] = "/")

\* C8: on every backend, Exists(name) for a name that resolves to a bucket
\* name and a clean key, with the bucket there and nothing stored under the
\* key, returns (false, nil, nil): absence is never reported as an error, and
\* no metadata is returned.
C8_ExistsAbsentIsFalseNilNil ==
    LET target == SplitPath(Before.store.bucket, last.name)
    IN  (/\ last.op = "Exists"
         /\ last.fault = "none"
         /\ target.err = Nil
         /\ ValidBucketName(target.bucket)
         /\ CleanKey(target.object)
         /\ ObjectAbsent(Before, target.bucket, target.object))
        => last.res = Res(Nil)

\* C9: on every backend, DeleteBucket(n) for a bucket name n (non-empty, no
\* "/") that names no existing bucket returns nil and changes neither the
\* Store nor the storage.
C9_DeleteMissingBucketIsNoOp ==
    (/\ last.op = "DeleteBucket"
     /\ last.fault = "none"
     /\ ValidBucketName(last.name)
     /\ ~BucketExists(Before, last.name))
    => /\ last.res.err = Nil
       /\ [store |-> store, fs |-> fs, s3 |-> s3] = Before

\* a "bucket/key" name: both parts non-empty
FullyQualified(name) == SplitPath(<<>>, name).err = Nil

\* Exists(name) and ReadObject(name) on the filesystem Store in world w
ExistsIn(w, name) == fsExists(w.store, w.fs, name).res

ReadIn(w, name) == fsReadObject(w.store, w.fs, name).res

Now == [store |-> store, fs |-> fs, s3 |-> s3]

\* C10: on a filesystem Store with no bucket set and fully-qualified names
\* p # q: after CreateObject(p, d, _) succeeds, Exists(p) is true with the
\* size of d and ReadObject(p) yields d; after a successful MoveObject(p, q)
\* of a p that holds d, Exists(p) is false and ReadObject(q) yields d.
C10_CreateReadMoveScenario ==
    (/\ backend = "filesystem"
     /\ Before.store.bucket = <<>>
     /\ last.res.err = Nil
     /\ FullyQualified(last.name))
    => /\ last.op = "CreateObject"
          => LET d == ReadAll(last.data).data
             IN  /\ ExistsIn(Now, last.name).err = Nil
                 /\ ExistsIn(Now, last.name).found
                 /\ ExistsIn(Now, last.name).meta[1].Size = Len(d)
                 /\ ReadIn(Now, last.name).err = Nil
                 /\ ReadIn(Now, last.name).data = <<d>>
       /\ (/\ last.op = "MoveObject"
           /\ FullyQualified(last.dest)
           /\ last.dest # last.name
           /\ ReadIn(Before, last.name).err = Nil)
          => /\ ExistsIn(Now, last.name) = Res(Nil)
             /\ ReadIn(Now, last.dest).err = Nil
             /\ ReadIn(Now, last.dest).data = ReadIn(Before, last.name).data

\* what is stored under name in world w, as the backend resolves the name:
\* <<>> when nothing is, <<bytes>> otherwise
Stored(w, name) ==
    IF backend = "filesystem"
    THEN LET sp == splitPathFS(w.store.bucket, name)
         IN  IF sp.err # Nil THEN <<>>
             ELSE ReadFile(w.fs, Join(sp.bucket, sp.object)).data
    ELSE LET sp == SplitPath(w.store.bucket, name)
         IN  IF sp.err # Nil THEN <<>>
             ELSE NativeGetObject(w.s3, sp.bucket, sp.object, "none").data

\* CopyObject(src, dest) of the last call's arguments, in the state before it
CopyStep ==
    IF backend = "filesystem"
    THEN LET c == fsCopyObject(Before.store, Before.fs, last.name, last.dest)
         IN  [store |-> c.s, fs |-> c.fs, s3 |-> Before.s3, err |-> c.res.err]
    ELSE LET c == IF backend = "minio"
                  THEN minioCopyObject(Before.store, Before.s3, last.name, last.dest, last.fault)
                  ELSE awsCopyObject(Before.store, Before.s3, last.name, last.dest, last.fault)
         IN  [store |-> c.s, fs |-> Before.fs, s3 |-> c.s3, err |-> c.res.err]

\* DeleteObject(src) of the last call's source, in the state CopyStep leaves
DeleteStep ==
    IF backend = "filesystem"
    THEN LET d == fsDeleteObject(CopyStep.store, CopyStep.fs, last.name)
         IN  [store |-> d.s, fs |-> d.fs, s3 |-> CopyStep.s3, err |-> d.res.err]
    ELSE LET d == IF backend = "minio"
                  THEN minioDeleteObject(CopyStep.store, CopyStep.s3, last.name, last.fault2)
                  ELSE awsDeleteObject(CopyStep.store, CopyStep.s3, last.name, last.fault2)
         IN  [store |-> d.s, fs |-> CopyStep.fs, s3 |-> d.s3, err |-> d.res.err]

\* C11: on every backend, MoveObject(src, dest) of a source that holds an
\* object is CopyObject(src, dest) followed by DeleteObject(src): when the
\* copy fails its error is returned and the source is as it was (no delete);
\* when the copy succeeds and the delete fails the delete's error is returned
\* and the object is at both src and dest.
C11_MoveIsCopyThenDelete ==
    (last.op = "MoveObject" /\ Stored(Before, last.name) # <<>>)
    => /\ CopyStep.err # Nil
          => /\ last.res.err = CopyStep.err
             /\ Stored(Now, last.name) = Stored(Before, last.name)
       /\ (CopyStep.err = Nil /\ DeleteStep.err # Nil)
          => /\ last.res.err = DeleteStep.err
             /\ Stored(Now, last.name) = Stored(Before, last.name)
             /\ Stored(Now, last.dest) = Stored(Before, last.name)
       /\ (CopyStep.err = Nil /\ DeleteStep.err = Nil) => last.res.err = Nil

\* C12: on every backend the bucket context changes only through SetBucket:
\* a successful SetBucket(n) with non-empty n makes it n, SetBucket("") makes
\* it unset, and every other operation leaves it as it was.
C12_OnlySetBucketChangesContext ==
    /\ (last.op = "SetBucket" /\ last.name # <<>> /\ last.res.err = Nil)
       => store.bucket = last.name
    /\ (last.op = "SetBucket" /\ last.name = <<>>) => store.bucket = <<>>
    /\ last.op \notin {"none", "SetBucket"} => store.bucket = Before.store.bucket

\* C13: on minio and aws, SetBucket(n) for a bucket name n that names no
\* bucket of the service returns found = false with bucket-not-found and
\* leaves the Store's bucket context as it was.
C13_FailedSetBucketDoesNotBind ==
    (/\ backend \in {"minio", "aws"}
     /\ last.op = "SetBucket"
     /\ last.fault = "none"
     /\ ValidBucketName(last.name)
     /\ last.name \notin Before.s3.buckets)
    => /\ ~last.res.found
       /\ last.res.err = ErrBucketNotFound
       /\ store.bucket = Before.store.bucket

\* C14: on every backend, ReadObject(name) for a name that resolves to an
\* existing bucket and a clean key under which nothing is stored returns an
\* empty result with a nil error.
C14_ReadAbsentIsEmptyNil ==
    LET target == SplitPath(Before.store.bucket, last.name)
    IN  (/\ last.op = "ReadObject"
         /\ last.fault = "none"
         /\ target.err = Nil
         /\ ValidBucketName(target.bucket)
         /\ CleanKey(target.object)
         /\ ObjectAbsent(Before, target.bucket, target.object))
        => /\ last.res.err = Nil
           /\ last.res.data = <<>>

\* the content type recorded for the object name resolves to in world w of a
\* minio or aws run: <<>> when there is no such object
StoredType(w, name) ==
    LET sp == SplitPath(w.store.bucket, name)
    IN  IF sp.err = Nil /\ <<sp.bucket, sp.object>> \in DOMAIN w.s3.objects
        THEN <<w.s3.objects[<<sp.bucket, sp.object>>].contentType>>
        ELSE <<>>

\* C15: on every backend, UpdateObject(name, data) for a name that resolves to
\* an existing bucket and a clean key returns object-not-found and changes
\* nothing when nothing is stored under the key; when an object is stored
\* there and the call succeeds, the object is still there with the content
\* type it had.
C15_UpdateNeedsExistingObject ==
    LET target == SplitPath(Before.store.bucket, last.name)
    IN  (/\ last.op = "UpdateObject"
         /\ last.fault = "none"
         /\ last.fault2 = "none"
         /\ target.err = Nil
         /\ ValidBucketName(target.bucket)
         /\ CleanKey(target.object))
        => /\ ObjectAbsent(Before, target.bucket, target.object)
              => /\ last.res.err = ErrObjectNotFound
                 /\ Now = Before
           /\ (Stored(Before, last.name) # <<>> /\ last.res.err = Nil)
              => /\ Stored(Now, last.name) # <<>>
                 /\ backend # "filesystem"
                    => StoredType(Now, last.name) = StoredType(Before, last.name)

\* C16: on every backend, Metadata(name) for a name that resolves to an
\* existing bucket and a clean key under which nothing is stored returns
\* object-not-found with no metadata, never a nil error.
C16_MetadataAbsentIsNotFound ==
    LET target == SplitPath(Before.store.bucket, last.name)
    IN  (/\ last.op = "Metadata"
         /\ last.fault = "none"
         /\ target.err = Nil
         /\ ValidBucketName(target.bucket)
         /\ CleanKey(target.object)
         /\ ObjectAbsent(Before, target.bucket, target.object))
        => /\ last.res.err = ErrObjectNotFound
           /\ last.res.meta = <<>>

\* C17: on every backend, ListObjects("") on a Store with no bucket selected
\* returns invalid-bucket-name and an empty listing, leaves everything as it
\* was, and sends no listing to the backend: a failing backend makes no
\* difference to the result.
C17_ListWithoutBucketIsInvalid ==
    (/\ last.op = "ListObjects"
     /\ last.name = <<>>
     /\ Before.store.bucket = <<>>)
    => /\ last.res.err = ErrInvalidBucketName
       /\ last.res.list = {}
       /\ Now = Before

\* the operations of the Store interface that take an object path
PathOps ==
    {"CreateObject", "ReadObject", "UpdateObject", "DeleteObject", "Exists",
     "Metadata", "CopyObject", "MoveObject"}

\* C18: on every backend, with no bucket selected, an operation that takes an
\* object path and is given one that is not "bucket/key" (a bare key,
\* "bucket/", "/key" or "") returns invalid-object-name and changes nothing.
C18_MalformedPathIsRejected ==
    (/\ last.op \in PathOps
     /\ Before.store.bucket = <<>>
     /\ last.fault = "none"
     /\ last.fault2 = "none"
     /\ \/ ~FullyQualified(last.name)
        \/ last.op \in {"CopyObject", "MoveObject"} /\ ~FullyQualified(last.dest))
    => /\ last.res.err = ErrInvalidObjectName
       /\ Now = Before

\* C19: the path resolution of the filesystem adapter (splitPathFS) and the
\* inline split of minio's CopyObject return, for every current bucket and
\* every path, what objex.SplitPath returns for them.
C19_AdaptersResolveAsSplitPath ==
    pWho \in {"splitPathFS", "minioCopySplit"} => pRes = SplitPath(pBucket, pPath)

\* C20: on every backend, HealthCheck changes no state: the Store's fields
\* (bucket, region, configuration) and the backend's buckets, objects and
\* directories are after the call what they were before it.
C20_HealthCheckMutatesNothing ==
    last.op = "HealthCheck" => Now = Before

\* C21: in the minio adapter no native error is swallowed: ToStandardError
\* maps the six known codes to their objex errors and every other native
\* error, one without a response code included, to a non-nil error; so
\* CreateBucket, DeleteBucket, CreateObject, DeleteObject and Exists, given
\* well-formed names and a native call that failed with access-denied or with
\* an error that is no S3 response, return a non-nil error.
C21_NativeErrorNeverSwallowed ==
    /\ ToStandardError("NoSuchBucket") = ErrBucketNotFound
    /\ ToStandardError("NoSuchKey") = ErrObjectNotFound
    /\ ToStandardError("AccessDenied") = ErrAccessDenied
    /\ ToStandardError("Conflict") = ErrBucketNotEmpty
    /\ ToStandardError("PreconditionFailed") = ErrPreconditionFailed
    /\ ToStandardError("BucketAlreadyOwnedByYou") = ErrBucketAlreadyExists
    /\ (/\ backend = "minio"
        /\ last.fault # "none"
        /\ \/ /\ last.op \in {"CreateBucket", "DeleteBucket"}
              /\ ValidBucketName(last.name)
           \/ /\ last.op \in {"CreateObject", "DeleteObject", "Exists"}
              /\ SplitPath(Before.store.bucket, last.name).err = Nil
              /\ ValidBucketName(SplitPath(Before.store.bucket, last.name).bucket)
              /\ CleanKey(SplitPath(Before.store.bucket, last.name).object))
       => last.res.err # Nil

\* C22: on every backend, CreateBucket("") and DeleteBucket("") return
\* invalid-bucket-name and leave every bucket, object and directory as it
\* was, whatever the backend holds.
C22_EmptyBucketNameIsRejected ==
    (last.op \in {"CreateBucket", "DeleteBucket"} /\ last.name = <<>>)
    => /\ last.res.err = ErrInvalidBucketName
       /\ Now = Before

\* both racing Register calls have returned
BothReturned == \A g \in Goroutines : gPc[g] = "done"

\* C23: two Register calls for distinct names that run at the same time are
\* safe under every interleaving: the process is never stopped, and once both
\* have returned each name is registered with its own constructor and New
\* hands a configuration of either name to that constructor.
C23_ConcurrentRegisterIsSafe ==
    /\ ~gFatal
    /\ BothReturned
       => \A g \in Goroutines :
            /\ gArgs[g].name \in DOMAIN drivers
            /\ drivers[gArgs[g].name] = gArgs[g].driver
            /\ (rLast = "New" /\ DriverName(newConfig) = gArgs[g].name)
               => newOut.calls = <<[driver |-> gArgs[g].driver, config |-> newConfig]>>

\* C24: on the filesystem backend with no bucket selected, CreateObject of a
\* name without "/" does not fail for lack of a bucket, and when it returns
\* nil the data is the file BasePath/name, Exists(name) finds it and
\* ReadObject(name) returns it.
C24_FSDefaultLocation ==
    (/\ backend = "filesystem"
     /\ last.op = "CreateObject"
     /\ Before.store.bucket = <<>>
     /\ ValidBucketName(last.name))
    => /\ last.res.err \notin {ErrInvalidObjectName, ErrInvalidBucketName, ErrBucketNotFound}
       /\ last.res.err = Nil
          => /\ IsFile(fs, <<last.name>>)
             /\ fs.files[<<last.name>>] = ReadAll(last.data).data
             /\ ExistsIn(Now, last.name).found
             /\ ExistsIn(Now, last.name).err = Nil
             /\ ReadIn(Now, last.name) = [Res(Nil) EXCEPT !.data = <<ReadAll(last.data).data>>]

C24_Witness ==
    /\ backend = "filesystem"
    /\ last.op = "CreateObject"
    /\ Before.store.bucket = <<>>
    /\ last.name = <<"a">>
    /\ last.res.err = Nil
    /\ ReadIn(Now, last.name).data = <<<<0, 1>>>>

\* C25: on minio and aws, CreateObject of a well-formed name in an existing
\* bucket, given a stream that reads to its end without error (seekable or
\* not) and a backend that answers, succeeds and stores exactly the bytes
\* the stream held from its current position on.
C25_UploadsRemainingBytes ==
    LET target == SplitPath(Before.store.bucket, last.name)
    IN  (/\ backend \in {"minio", "aws"}
         /\ last.op = "CreateObject"
         /\ last.fault = "none"
         /\ target.err = Nil
         /\ CleanKey(target.object)
         /\ BucketExists(Before, target.bucket)
         /\ last.data.seekFail = {}
         /\ ReadAll(last.data).err = Nil)
        => /\ last.res.err = Nil
           /\ Stored(Now, last.name) = <<Remaining(last.data)>>

\* C26: on the filesystem backend, CopyObject(src, dest) or MoveObject(src,
\* dest) of a readable object that returns nil leaves at dest exactly the
\* content src held before the call, also when src and dest are the same file.
C26_FSCopyKeepsContent ==
    (/\ backend = "filesystem"
     /\ last.op \in {"CopyObject", "MoveObject"}
     /\ ReadIn(Before, last.name).err = Nil
     /\ last.res.err = Nil)
    => /\ ReadIn(Now, last.dest).err = Nil
       /\ ReadIn(Now, last.dest).data = ReadIn(Before, last.name).data

====
